---- MODULE Spec2Model ----
(***************************************************************************)
(* A model of claude-search (src/src/search.js): loading a session file,   *)
(* decoding project names, and the bounded worker pool of search() with    *)
(* its per-directory remote cache, match pool, sort and truncation.        *)
(*                                                                         *)
(* Strings are sequences of one-token strings.  JavaScript indices are     *)
(* 0-based; the operators below take and return 0-based indices where the  *)
(* source does, and convert at the Sequences boundary.                     *)
(***************************************************************************)
EXTENDS Integers, Sequences, FiniteSets, TLC

VARIABLES
  env,          \* the world one invocation runs in: directory listing, files, options
  phase,        \* where search() is: "readdir", "scan", "done", "exit", "rejected"
  queue,        \* search(): const queue = [...files]
  workers,      \* one record per worker(): its position and its locals
  remoteCache,  \* search(): remoteCache, projDir -> promise
  lookups,      \* history: the resolveGitRemote calls started, in order
  dequeued,     \* history: the files taken by queue.shift(), in order
  matches,      \* search(): matches
  rendered,     \* the arguments printResults was called with
  call          \* one call of an exported pure function: its argument and result

vars == <<env, phase, queue, workers, remoteCache, lookups, dequeued, matches,
          rendered, call>>

(***************************************************************************)
(* Bounds of the model.                                                    *)
(***************************************************************************)
MaxLines == 3        \* lines of a session file drawn for loadMessages

(***************************************************************************)
(* String.prototype / Array.prototype helpers, as the source uses them.    *)
(***************************************************************************)
Min(a, b) == IF a <= b THEN a ELSE b
Max(a, b) == IF a >= b THEN a ELSE b

\* Array.prototype.slice(start, end) / String.prototype.slice: 0-based, end
\* exclusive, negative indices count from the end, both clamped to the length.
Slice(s, start, end) ==
  LET n    == Len(s)
      from == IF start < 0 THEN Max(n + start, 0) ELSE Min(start, n)
      to   == IF end < 0 THEN Max(n + end, 0) ELSE Min(end, n)
  IN  IF from >= to THEN <<>> ELSE SubSeq(s, from + 1, to)

SliceFrom(s, start) == Slice(s, start, Len(s))

StartsWith(s, p) == Len(p) <= Len(s) /\ SubSeq(s, 1, Len(p)) = p
EndsWith(s, p) == Len(p) <= Len(s) /\ SubSeq(s, Len(s) - Len(p) + 1, Len(s)) = p

\* String.prototype.includes: needle occurs as a contiguous substring.
Includes(s, needle) ==
  \E k \in 0..(Len(s) - Len(needle)) : SubSeq(s, k + 1, k + Len(needle)) = needle

RECURSIVE Join(_, _)
Join(parts, sep) ==
  IF parts = <<>> THEN <<>>
  ELSE IF Len(parts) = 1 THEN parts[1]
  ELSE parts[1] \o sep \o Join(Tail(parts), sep)

\* String.prototype.split(sep) for a one-token separator: always at least one
\* piece; n separators give n + 1 pieces.
RECURSIVE SplitAcc(_, _, _)
SplitAcc(s, sep, cur) ==
  IF s = <<>> THEN <<cur>>
  ELSE IF Head(s) = sep THEN <<cur>> \o SplitAcc(Tail(s), sep, <<>>)
  ELSE SplitAcc(Tail(s), sep, Append(cur, Head(s)))
Split(s, sep) == SplitAcc(s, sep, <<>>)

RECURSIVE ReplaceAll(_, _, _)
ReplaceAll(s, old, new) ==
  IF s = <<>> THEN <<>>
  ELSE <<IF Head(s) = old THEN new ELSE Head(s)>> \o ReplaceAll(Tail(s), old, new)

LowerOf(c) ==
  CASE c = "A" -> "a"
    [] c = "B" -> "b"
    [] c = "Q" -> "q"
    [] c = "X" -> "x"
    [] OTHER -> c
ToLowerCase(s) == [k \in 1..Len(s) |-> LowerOf(s[k])]

(***************************************************************************)
(* The content of a session file.  A file is a sequence of tokens: whitespace, *)
(* newline, the JSON punctuation, the literal null, and "members" tokens   *)
(* that stand for the member list of one JSON object ("type":..,           *)
(* "timestamp":.., "message":{..}) and carry the object they denote.       *)
(***************************************************************************)
NoContent == [kind |-> "undefined", str |-> <<>>, blocks |-> <<>>]
StrContent(s) == [kind |-> "string", str |-> s, blocks |-> <<>>]
ArrContent(bs) == [kind |-> "array", str |-> <<>>, blocks |-> bs]
TextBlock(s) == [type |-> "text", text |-> s, thinking |-> <<>>]
ThinkingBlock(s) == [type |-> "thinking", text |-> <<>>, thinking |-> s]
ToolBlock == [type |-> "tool_use", text |-> <<>>, thinking |-> <<>>]
\* a JSON null where a content block is expected
NullBlock == [type |-> "null", text |-> <<>>, thinking |-> <<>>]

\* timestamp 0 is "no timestamp member"; type and role "" are "no such member".
NoTs == 0
EmptyObject == [null |-> FALSE, type |-> "", timestamp |-> NoTs, role |-> "",
                content |-> NoContent]
JsNull == [EmptyObject EXCEPT !.null = TRUE]
Rec(type, ts, content) ==
  [null |-> FALSE, type |-> type, timestamp |-> ts,
   role |-> IF type \in {"user", "assistant"} THEN type ELSE "",
   content |-> content]

Tok(t) == [t |-> t, v |-> EmptyObject]
NL == Tok("\n")
SP == Tok(" ")
LB == Tok("{")
RB == Tok("}")
NUL == Tok("null")
Members(obj) == [t |-> "members", v |-> obj]

IsSpace(tok) == tok = SP \/ tok = NL

\* String.prototype.trim
RECURSIVE TrimStart(_)
TrimStart(s) == IF s # <<>> /\ IsSpace(Head(s)) THEN TrimStart(Tail(s)) ELSE s
RECURSIVE TrimEnd(_)
TrimEnd(s) ==
  IF s # <<>> /\ IsSpace(s[Len(s)]) THEN TrimEnd(SubSeq(s, 1, Len(s) - 1)) ELSE s
Trim(s) == TrimEnd(TrimStart(s))

\* JSON.parse on one trimmed line: whitespace between tokens is insignificant;
\* the text must be exactly one value (null, {} or {members}); anything else,
\* such as an object cut before its closing brace, is a SyntaxError.
JSONParse(text) ==
  LET body == SelectSeq(text, LAMBDA tok : ~IsSpace(tok))
  IN  CASE body = <<NUL>> -> [ok |-> TRUE, value |-> JsNull]
        [] body = <<LB, RB>> -> [ok |-> TRUE, value |-> EmptyObject]
        [] Len(body) = 3 /\ body[1] = LB /\ body[2].t = "members" /\ body[3] = RB
             -> [ok |-> TRUE, value |-> body[2].v]
        [] OTHER -> [ok |-> FALSE, value |-> EmptyObject]

(***************************************************************************)
(* loadMessages (search.js 205-221).  A file is [readable, raw]; the       *)
(* result is [threw, records, messages].                                   *)
(***************************************************************************)
\* for (const line of raw.split('\n')) { trim; skip blank; try push(parse) catch {} }
RECURSIVE ParseLinesNoCatch(_)
ParseLinesNoCatch(lines) ==
  IF lines = <<>> THEN [threw |-> FALSE, records |-> <<>>]
  ELSE LET trimmed == Trim(Head(lines))
           rest    == ParseLinesNoCatch(Tail(lines))
       IN  IF trimmed = <<>> THEN rest
           ELSE IF ~JSONParse(trimmed).ok THEN [threw |-> TRUE, records |-> <<>>]
           ELSE [rest EXCEPT !.records = <<JSONParse(trimmed).value>> \o @]
RECURSIVE ParseLines(_)
ParseLines(lines) ==
  IF lines = <<>> THEN [threw |-> FALSE, records |-> <<>>]
  ELSE LET trimmed == Trim(Head(lines))
           rest    == ParseLines(Tail(lines))
       IN  IF trimmed = <<>> THEN rest
           ELSE IF JSONParse(trimmed).ok
           THEN [rest EXCEPT !.records = <<JSONParse(trimmed).value>> \o @]
           ELSE rest

\* records.filter((r) => r.type === 'user' || r.type === 'assistant')
IsMessageUserOnly(r) == r.type = "user"
IsMessage(r) == r.type = "user" \/ r.type = "assistant"

\* r.type on a record that is null is a TypeError: the filter throws.
FilterThrows(records) == \E k \in 1..Len(records) : records[k].null

loadMessages(file) ==
  IF ~file.readable
  THEN [threw |-> TRUE, records |-> <<>>, messages |-> <<>>]   \* readFile rejects
  ELSE LET parsed == ParseLines(Split(file.raw, NL))
       IN  IF parsed.threw \/ FilterThrows(parsed.records)
           THEN [threw |-> TRUE, records |-> <<>>, messages |-> <<>>]
           ELSE [threw |-> FALSE, records |-> parsed.records,
                 messages |-> SelectSeq(parsed.records, IsMessage)]

(***************************************************************************)
(* Sample lines of a session file, as raw token sequences.                 *)
(***************************************************************************)
UserObj == Rec("user", 2, StrContent(<<"a">>))
AsstObj == Rec("assistant", 1, StrContent(<<"b">>))
SysObj == Rec("system", 3, NoContent)

LineUser == <<LB, Members(UserObj), RB>>
LineAsstPadded == <<SP, LB, SP, Members(AsstObj), RB, SP>>
LineSys == <<LB, Members(SysObj), RB>>
LineEmptyObject == <<LB, RB>>
LineTruncated == <<LB, Members(UserObj)>>       \* cut mid-write
LineJunk == <<RB, RB>>
LineBlank == <<SP>>
LineEmpty == <<>>
LineNull == <<NUL>>

SampleLines ==
  {LineUser, LineAsstPadded, LineSys, LineEmptyObject, LineTruncated, LineJunk,
   LineBlank, LineEmpty, LineNull}

SeqsUpTo(S, n) == UNION {[1..k -> S] : k \in 0..n}

(***************************************************************************)
(* The state of search() while an exported function is called on its own.  *)
(***************************************************************************)
NoEnv == [rootReadable |-> FALSE]
SearchIdle ==
  /\ env = NoEnv
  /\ phase = "none"
  /\ queue = <<>>
  /\ workers = <<>>
  /\ remoteCache = <<>>
  /\ lookups = <<>>
  /\ dequeued = <<>>
  /\ matches = <<>>
  /\ rendered = <<>>

searchVars == <<env, phase, queue, workers, remoteCache, lookups, dequeued,
                matches, rendered>>

NoCall == [op |-> "none", done |-> TRUE]

(***************************************************************************)
(* SpecLoad: loadMessages called once on a file of up to MaxLines sample   *)
(* lines joined by newlines (call.lines remembers the lines written).      *)
(***************************************************************************)
InitLoad ==
  /\ SearchIdle
  /\ \E ls \in SeqsUpTo(SampleLines, MaxLines), r \in BOOLEAN :
       call = [op |-> "loadMessages", lines |-> ls,
               arg |-> [readable |-> r, raw |-> Join(ls, <<NL>>)],
               ret |-> [threw |-> FALSE, records |-> <<>>, messages |-> <<>>],
               done |-> FALSE]

CallLoadMessages ==
  /\ call.op = "loadMessages"
  /\ ~call.done
  /\ call' = [call EXCEPT !.ret = loadMessages(call.arg), !.done = TRUE]
  /\ UNCHANGED searchVars

NextLoad == CallLoadMessages

SpecLoad == InitLoad /\ [][NextLoad]_vars

Returned(op) == call.op = op /\ call.done

\* The lines of the file that are not blank after trimming, and those of them
\* that are valid JSON.
NonBlankLines(ls) == SelectSeq(ls, LAMBDA l : Trim(l) # <<>>)
ValidJSONLines(ls) == SelectSeq(NonBlankLines(ls), LAMBDA l : JSONParse(Trim(l)).ok)
CorruptLines(ls) == SelectSeq(NonBlankLines(ls), LAMBDA l : ~JSONParse(Trim(l)).ok)
HasNullLine(ls) ==
  \E k \in 1..Len(ValidJSONLines(ls)) : JSONParse(Trim(ValidJSONLines(ls)[k])).value.null

\* C1: on a readable file, loadMessages never fails because of a line that is
\* not valid JSON (it fails only when a line is the JSON value null); when it
\* returns, records holds exactly the values of the non-blank lines that parse,
\* in file order, none for a line that fails to parse, so records.length is at
\* most the number of non-blank lines.
C1_CorruptLinesSkipped ==
  (Returned("loadMessages") /\ call.arg.readable) =>
    LET good == ValidJSONLines(call.lines)
    IN  /\ call.ret.threw => HasNullLine(call.lines)
        /\ ~call.ret.threw =>
             /\ Len(call.ret.records) = Len(good)
             /\ \A k \in 1..Len(good) :
                  call.ret.records[k] = JSONParse(Trim(good[k])).value
             /\ Len(call.ret.records) + Len(CorruptLines(call.lines))
                  = Len(NonBlankLines(call.lines))
             /\ Len(call.ret.records) <= Len(NonBlankLines(call.lines))

\* A file with a good line, a corrupt line and a good line: two records.
C1_Witness ==
  /\ Returned("loadMessages")
  /\ call.lines = <<LineUser, LineTruncated, LineAsstPadded>>
  /\ call.arg.readable
  /\ ~call.ret.threw
  /\ call.ret.records = <<UserObj, AsstObj>>

RECURSIVE IsSubsequence(_, _)
IsSubsequence(a, b) ==
  IF a = <<>> THEN TRUE
  ELSE IF b = <<>> THEN FALSE
  ELSE IF Head(a) = Head(b) THEN IsSubsequence(Tail(a), Tail(b))
  ELSE IsSubsequence(a, Tail(b))

CountTagged(rs) == Cardinality({k \in 1..Len(rs) : rs[k].type \in {"user", "assistant"}})

\* C2: the messages returned by loadMessages are a subsequence of records in
\* the same relative order, every one tagged user or assistant, and as many as
\* records holds with those tags (none missing, none extra).
C2_MessagesSubsequence ==
  (Returned("loadMessages") /\ ~call.ret.threw) =>
    /\ IsSubsequence(call.ret.messages, call.ret.records)
    /\ \A k \in 1..Len(call.ret.messages) :
         call.ret.messages[k].type \in {"user", "assistant"}
    /\ Len(call.ret.messages) = CountTagged(call.ret.records)

C2_Witness ==
  /\ Returned("loadMessages")
  /\ call.ret.records = <<SysObj, AsstObj, UserObj>>
  /\ call.ret.messages = <<AsstObj, UserObj>>

(***************************************************************************)
(* Paths.  path.join concatenates with '/' and normalizes, which collapses *)
(* repeated separators; dirname and basename cut at the last separator.    *)
(***************************************************************************)
RECURSIVE Normalize(_)
Normalize(p) ==
  IF Len(p) < 2 THEN p
  ELSE IF p[1] = "/" /\ p[2] = "/" THEN Normalize(Tail(p))
  ELSE <<p[1]>> \o Normalize(Tail(p))

PathJoin(a, b) == Normalize(a \o <<"/">> \o b)

LastSlash(p) ==
  IF \E k \in 1..Len(p) : p[k] = "/"
  THEN CHOOSE k \in 1..Len(p) : p[k] = "/" /\ \A j \in (k + 1)..Len(p) : p[j] # "/"
  ELSE 0
Dirname(p) == IF LastSlash(p) <= 1 THEN SubSeq(p, 1, LastSlash(p)) ELSE SubSeq(p, 1, LastSlash(p) - 1)
Basename(p, ext) ==
  LET base == SubSeq(p, LastSlash(p) + 1, Len(p))
  IN  IF EndsWith(base, ext) /\ base # ext THEN SubSeq(base, 1, Len(base) - Len(ext)) ELSE base

(***************************************************************************)
(* projectName (search.js 41-46); home is what os.homedir() returns.       *)
(***************************************************************************)
\* '-' + homedir().slice(1).replace(/\//g, '-') + '-'
homePrefix(home) == <<"-">> \o ReplaceAll(SliceFrom(home, 1), "/", "-") \o <<"-">>

\* filePath.slice(sessionsDir.length + 1).split('/')[0]
slugOf(sessionsDir, filePath) ==
  Split(SliceFrom(filePath, Len(sessionsDir) + 1), "/")[1]

projectName(home, sessionsDir, filePath) ==
  LET dir == slugOf(sessionsDir, filePath)
  IN  IF StartsWith(dir, homePrefix(home))
      THEN SliceFrom(dir, Len(homePrefix(home)))
      ELSE dir

(***************************************************************************)
(* SpecProj: projectName called once, on the path search() builds for a    *)
(* session file <sessionsDir>/<slug>/<id>.jsonl: join(sessionsDir, entry). *)
(* The sessions directory is given as typed, with or without a trailing    *)
(* separator.                                                              *)
(***************************************************************************)
MaxSlugLen == 5

SlugChars == {"-", "u", "p", "a"}
Slugs == UNION {[1..k -> SlugChars] : k \in 1..MaxSlugLen}
Homes == {<<"/", "u">>, <<"/", "u", "/", "p">>}
SessionsDirs == {<<"/", "s">>, <<"/", "s", "/">>}
SessionFileName == <<"1", ".jsonl">>

InitProj ==
  /\ SearchIdle
  /\ \E home \in Homes, dir \in SessionsDirs, slug \in Slugs :
       call = [op |-> "projectName", home |-> home, slug |-> slug,
               arg |-> [sessionsDir |-> dir,
                        filePath |-> PathJoin(dir, slug \o <<"/">> \o SessionFileName)],
               ret |-> <<>>, done |-> FALSE]

CallProjectName ==
  /\ call.op = "projectName"
  /\ ~call.done
  /\ call' = [call EXCEPT
                !.ret = projectName(call.home, call.arg.sessionsDir, call.arg.filePath),
                !.done = TRUE]
  /\ UNCHANGED searchVars

NextProj == CallProjectName

SpecProj == InitProj /\ [][NextProj]_vars

\* The slug of the home directory (every '/' replaced by '-') followed by the
\* separator that starts the rest of the path.
EncodedHomePrefix(home) == ReplaceAll(home, "/", "-") \o <<"-">>

\* C10: for a session file whose project slug starts with the encoded home
\* prefix, projectName returns exactly the rest of the slug after that prefix,
\* every hyphen of the rest kept.
C10_HomePrefixStripped ==
  (Returned("projectName") /\ StartsWith(call.slug, EncodedHomePrefix(call.home))) =>
    call.slug = EncodedHomePrefix(call.home) \o call.ret

\* The same, for a sessions directory given without a trailing separator.
C10_OnPlainSessionsDir ==
  (Returned("projectName") /\ call.arg.sessionsDir = <<"/", "s">>
     /\ StartsWith(call.slug, EncodedHomePrefix(call.home))) =>
    call.slug = EncodedHomePrefix(call.home) \o call.ret

\* C11: for a session file whose project slug does not start with the encoded
\* home prefix, projectName returns the slug without its leading '-', the rest
\* of the slug unchanged.
C11_UnprefixedSlugStripped ==
  (Returned("projectName") /\ ~StartsWith(call.slug, EncodedHomePrefix(call.home))) =>
    call.ret = (IF Head(call.slug) = "-" THEN Tail(call.slug) ELSE call.slug)

\* What the code returns for such a slug when the sessions directory is given
\* without a trailing separator: the whole slug, its leading '-' included.
UnprefixedSlugKept ==
  (Returned("projectName") /\ call.arg.sessionsDir = <<"/", "s">>
     /\ ~StartsWith(call.slug, EncodedHomePrefix(call.home))) =>
    call.ret = call.slug

(***************************************************************************)
(* Message text (search.js 12-35, 180-201).  Text is a sequence of         *)
(* one-token strings; the three-backtick fence is the one token "FENCE".   *)
(***************************************************************************)
IsSpaceChar(c) == c = " " \/ c = "\n"
RECURSIVE TrimTextStart(_)
TrimTextStart(s) ==
  IF s # <<>> /\ IsSpaceChar(Head(s)) THEN TrimTextStart(Tail(s)) ELSE s
RECURSIVE TrimTextEnd(_)
TrimTextEnd(s) ==
  IF s # <<>> /\ IsSpaceChar(s[Len(s)]) THEN TrimTextEnd(SubSeq(s, 1, Len(s) - 1)) ELSE s
TrimText(s) == TrimTextEnd(TrimTextStart(s))

RECURSIVE TextsOf(_)
TextsOf(blocks) ==
  IF blocks = <<>> THEN <<>>
  ELSE IF Head(blocks).type = "text" THEN <<Head(blocks).text>> \o TextsOf(Tail(blocks))
  ELSE TextsOf(Tail(blocks))

\* content.filter((b) => b.type === 'text') reads .type of every element: a
\* null element raises a TypeError.
extractTextThrows(content) ==
  content.kind = "array" /\ \E k \in 1..Len(content.blocks) : content.blocks[k] = NullBlock

extractTextUntrimmed(content) ==
  IF content.kind = "string" THEN content.str
  ELSE IF content.kind # "array" THEN <<>>
  ELSE Join(TextsOf(content.blocks), <<"\n">>)
extractText(content) ==
  IF content.kind = "string" THEN content.str
  ELSE IF content.kind # "array" THEN <<>>
  ELSE TrimText(Join(TextsOf(content.blocks), <<"\n">>))

\* The fence regular expression of extractCodeBlocks: a fence, the longest run
\* of word characters, a newline, then the shortest body up to the next fence.
Fence == "FENCE"
IsWordChar(c) == c \notin {" ", "\n", Fence, "-", "/", "."}
RECURSIVE WordRun(_)
WordRun(s) ==
  IF s # <<>> /\ IsWordChar(Head(s)) THEN <<Head(s)>> \o WordRun(Tail(s)) ELSE <<>>
RECURSIVE UpToFence(_)
UpToFence(s) == IF s = <<>> \/ Head(s) = Fence THEN <<>> ELSE <<Head(s)>> \o UpToFence(Tail(s))

\* blocks.push({ lang: m[1] || 'text', code: m[2].trimEnd() })
blockOfRaw(lang, body) == [lang |-> lang, code |-> body]
blockOf(lang, body) ==
  [lang |-> IF lang = <<>> THEN <<"text">> ELSE lang, code |-> TrimTextEnd(body)]

RECURSIVE fenceExec(_)
fenceExec(text) ==
  IF text = <<>> THEN <<>>
  ELSE IF Head(text) # Fence THEN fenceExec(Tail(text))
  ELSE LET lang  == WordRun(Tail(text))
           after == SubSeq(text, 2 + Len(lang), Len(text))
       IN  IF after = <<>> \/ Head(after) # "\n" THEN fenceExec(Tail(text))
           ELSE LET body == UpToFence(Tail(after))
                    rest == SubSeq(after, 2 + Len(body), Len(after))
                IN  IF rest = <<>> THEN fenceExec(Tail(text))   \* no closing fence
                    ELSE <<blockOf(lang, body)>> \o fenceExec(Tail(rest))

extractCodeBlocks(content) == fenceExec(extractText(content))

NoReasoning == [found |-> FALSE, lines |-> <<>>, hitLine |-> 0,
                trimmedTop |-> FALSE, trimmedBottom |-> FALSE]
lineContext == 3
extractReasoningSnippetFirstTagged(content, query) ==
  IF content.kind # "array" THEN NoReasoning
  ELSE LET isThinking(b) == b.type = "thinking"
           found == SelectSeq(content.blocks, isThinking)
       IN  IF found = <<>> THEN NoReasoning
           ELSE LET lines  == Split(found[1].thinking, "\n")
                    needle == ToLowerCase(query)
                    hits   == {k \in 1..Len(lines) : Includes(ToLowerCase(lines[k]), needle)}
                IN  IF hits = {} THEN NoReasoning
                    ELSE LET hitIdx == (CHOOSE k \in hits : \A j \in hits : k <= j) - 1
                             from   == Max(0, hitIdx - lineContext)
                             to     == Min(Len(lines) - 1, hitIdx + lineContext)
                         IN  [found |-> TRUE, lines |-> Slice(lines, from, to + 1),
                              hitLine |-> hitIdx - from, trimmedTop |-> from > 0,
                              trimmedBottom |-> to < Len(lines) - 1]
extractReasoningSnippet(content, query) ==
  IF content.kind # "array" THEN NoReasoning
  ELSE LET isThinking(b) == b.type = "thinking" /\ b.thinking # <<>>
           found == SelectSeq(content.blocks, isThinking)
       IN  IF found = <<>> THEN NoReasoning
           ELSE LET lines  == Split(found[1].thinking, "\n")
                    needle == ToLowerCase(query)
                    hits   == {k \in 1..Len(lines) : Includes(ToLowerCase(lines[k]), needle)}
                IN  IF hits = {} THEN NoReasoning
                    ELSE LET hitIdx == (CHOOSE k \in hits : \A j \in hits : k <= j) - 1
                             from   == Max(0, hitIdx - lineContext)
                             to     == Min(Len(lines) - 1, hitIdx + lineContext)
                         IN  [found |-> TRUE, lines |-> Slice(lines, from, to + 1),
                              hitLine |-> hitIdx - from, trimmedTop |-> from > 0,
                              trimmedBottom |-> to < Len(lines) - 1]

(***************************************************************************)
(* resolveGitRemote and findExistingPath (search.js 59-115).  disk.paths   *)
(* is what fs.access finds; disk.origin[path] is what                      *)
(* `git -C path remote get-url origin` prints, for the paths where it      *)
(* succeeds.  A null result is the empty string.                           *)
(***************************************************************************)
NoPath == [found |-> FALSE, path |-> <<>>]
RECURSIVE findExistingPath(_, _, _)
RECURSIVE tryTake(_, _, _, _)
RECURSIVE tryTakeLongestFirst(_, _, _, _)
tryTakeLongestFirst(disk, base, parts, take) ==
  IF take > Len(parts) THEN NoPath
  ELSE LET size      == Len(parts) - take + 1
           segment   == Join(SubSeq(parts, 1, size), <<"-">>)
           candidate == IF segment = <<>> THEN base ELSE PathJoin(base, segment)
           deeper    == findExistingPath(disk, candidate, SubSeq(parts, size + 1, Len(parts)))
       IN  IF candidate \in disk.paths /\ deeper.found THEN deeper
           ELSE tryTakeLongestFirst(disk, base, parts, take + 1)
tryTake(disk, base, parts, take) ==
  IF take > Len(parts) THEN NoPath
  ELSE LET segment   == Join(SubSeq(parts, 1, take), <<"-">>)
           candidate == IF segment = <<>> THEN base ELSE PathJoin(base, segment)
           deeper    == findExistingPath(disk, candidate, SubSeq(parts, take + 1, Len(parts)))
       IN  IF candidate \in disk.paths /\ deeper.found THEN deeper
           ELSE tryTake(disk, base, parts, take + 1)
findExistingPath(disk, base, parts) ==
  IF parts = <<>> THEN [found |-> TRUE, path |-> base]
  ELSE tryTake(disk, base, parts, 1)

\* True when the call returns before its first await (slug without the prefix).
resolvesAtOnce(home, sessionsDir, filePath) ==
  ~StartsWith(slugOf(sessionsDir, filePath), homePrefix(home))

\* What resolveGitRemote resolves to: null, or the URL git printed.
NullRemote == [null |-> TRUE, url |-> <<>>]
Remote(url) == [null |-> FALSE, url |-> url]

\* return stdout.trim() || null
orNull(url) == IF url = <<>> THEN NullRemote ELSE Remote(url)

resolveGitRemoteKeepsEmpty(disk, home, sessionsDir, filePath) ==
  LET candidate == findExistingPath(disk, home,
                     Split(SliceFrom(slugOf(sessionsDir, filePath), Len(homePrefix(home))), "-"))
  IN  IF StartsWith(slugOf(sessionsDir, filePath), homePrefix(home)) /\ candidate.found
         /\ candidate.path \in DOMAIN disk.origin
      THEN Remote(TrimText(disk.origin[candidate.path]))
      ELSE NullRemote
resolveGitRemote(disk, home, sessionsDir, filePath) ==
  LET slug == slugOf(sessionsDir, filePath)
  IN  IF ~StartsWith(slug, homePrefix(home)) THEN NullRemote
      ELSE LET parts     == Split(SliceFrom(slug, Len(homePrefix(home))), "-")
               candidate == findExistingPath(disk, home, parts)
           IN  IF ~candidate.found THEN NullRemote
               ELSE IF PathJoin(candidate.path, <<".git">>) \notin disk.paths THEN NullRemote
               ELSE IF candidate.path \in disk.timeouts THEN NullRemote
               ELSE IF candidate.path \notin DOMAIN disk.origin THEN NullRemote
               ELSE orNull(TrimText(disk.origin[candidate.path]))

(***************************************************************************)
(* search() (search.js 276-394).  Bounds: the pool has CONCURRENCY workers *)
(* (20 in the source, scaled down here), the sessions directory holds      *)
(* NumFiles session files, the display limit is at most MaxLimit.          *)
(***************************************************************************)
CONCURRENCY == 2
NumFiles == 3
MaxLimit == 2

\* new Date(timestamp): the instant a timestamp string denotes.  Two strings
\* may denote the same instant (another offset, another precision).
DateOf(ts) == (ts + 1) \div 2

\* const before = messages.slice(Math.max(0, i - context), i),
\*       after  = messages.slice(i + 1, i + 1 + context)
contextBeforeNoClamp(messages, i, context) == Slice(messages, i - context, i)
contextBefore(messages, i, context) == Slice(messages, Max(0, i - context), i)
contextAfter(messages, i, context) == Slice(messages, i + 1, i + 1 + context)

FilePathOf(e, k) ==
  PathJoin(e.sessionsDir, e.files[k].slug \o <<"/", ToString(k), ".jsonl">>)
FileAt(path) == env.files[CHOOSE k \in 1..Len(env.files) : FilePathOf(env, k) = path]

\* readdir(sessionsDir, { recursive: true }): every project directory, every
\* session file in it, and a file that is not a session file.
RECURSIVE entriesFrom(_, _)
entriesFrom(e, k) ==
  IF k > Len(e.files) THEN <<<<"n", ".txt">>>>
  ELSE <<e.files[k].slug, e.files[k].slug \o <<"/", ToString(k), ".jsonl">>>>
         \o entriesFrom(e, k + 1)
readdirEntries(e) == entriesFrom(e, 1)

\* entries.filter((e) => e.endsWith('.jsonl')).map((e) => join(sessionsDir, e))
sessionFiles(e) ==
  LET kept == SelectSeq(readdirEntries(e), LAMBDA x : EndsWith(x, <<".jsonl">>))
  IN  [k \in 1..Len(kept) |-> PathJoin(e.sessionsDir, kept[k])]

needleOf(e) == IF e.caseSensitive THEN e.query ELSE ToLowerCase(e.query)

\* The body of the for loop over messages, for message i (0-based): the match
\* pushed, or none.
qualifiesByTextAlone(e, msg) ==
  Includes(IF e.caseSensitive THEN extractText(msg.content)
           ELSE ToLowerCase(extractText(msg.content)), needleOf(e))
qualifies(e, msg) ==
  LET text     == extractText(msg.content)
      haystack == IF e.caseSensitive THEN text ELSE ToLowerCase(text)
      inCode(b) == Includes(IF e.caseSensitive THEN b.code ELSE ToLowerCase(b.code),
                            needleOf(e))
  IN  /\ Includes(haystack, needleOf(e))
      /\ e.codeOnly => SelectSeq(extractCodeBlocks(msg.content), inCode) # <<>>

\* msg.timestamp ?? sessionTs
timestampOwnOnly(msg, sessionTs) == msg.timestamp
timestampOf(msg, sessionTs) ==
  IF msg.timestamp # NoTs THEN msg.timestamp ELSE sessionTs
matchOf(e, wk, gitRemote, i) ==
  LET msg == wk.messages[i + 1]
  IN  [index      |-> i,               \* history: the loop variable i
       filePath   |-> wk.filePath,
       project    |-> wk.proj,
       gitRemote  |-> gitRemote,
       sessionId  |-> Basename(wk.filePath, <<".jsonl">>),
       timestamp  |-> timestampOf(msg, wk.sessionTs),
       role       |-> IF msg.role # "" THEN msg.role ELSE msg.type,
       text       |-> extractText(msg.content),
       codeBlocks |-> extractCodeBlocks(msg.content),
       reasoning  |-> IF e.showReasoning
                      THEN extractReasoningSnippet(msg.content, e.query)
                      ELSE NoReasoning,
       before     |-> contextBefore(wk.messages, i, e.context),
       after      |-> contextAfter(wk.messages, i, e.context)]

RECURSIVE matchesFrom(_, _, _, _)
matchesFrom(e, wk, gitRemote, i) ==
  IF i >= Len(wk.messages) \/ extractTextThrows(wk.messages[i + 1].content) THEN <<>>
  ELSE (IF qualifies(e, wk.messages[i + 1]) THEN <<matchOf(e, wk, gitRemote, i)>> ELSE <<>>)
         \o matchesFrom(e, wk, gitRemote, i + 1)

(***************************************************************************)
(* worker() (search.js 307-369), run from one suspension point to the      *)
(* next.  st is the shared state a worker reads and writes:                *)
(* [queue, workers, remoteCache, lookups, dequeued, matches].  A worker    *)
(* is suspended at "load" (await loadMessages) or at "remote" (await of a  *)
(* pending lookup), or is "done", or "threw": its promise is rejected.     *)
(***************************************************************************)
NoLocals == [pc |-> "done", filePath |-> <<>>, proj |-> <<>>, messages |-> <<>>,
             sessionTs |-> NoTs, projDir |-> <<>>]

projectFilteredNever(e, proj) == FALSE
projectFiltered(e, proj) ==
  e.project # <<>> /\ ~Includes(ToLowerCase(proj), ToLowerCase(e.project))

\* while (queue.length > 0) { filePath = queue.shift(); ...; await loadMessages }
RECURSIVE loopTop(_, _, _)
RECURSIVE loopTopPeeks(_, _, _)
loopTopPeeks(e, st, w) ==
  IF st.queue = <<>> THEN [st EXCEPT !.workers[w] = NoLocals]
  ELSE LET filePath == Head(st.queue)
           proj     == projectName(e.home, e.sessionsDir, filePath)
           taken    == [st EXCEPT !.dequeued = Append(@, filePath)]
       IN  IF projectFiltered(e, proj) THEN loopTopPeeks(e, taken, w)
           ELSE [taken EXCEPT !.workers[w] =
                   [NoLocals EXCEPT !.pc = "load", !.filePath = filePath, !.proj = proj]]
loopTop(e, st, w) ==
  IF st.queue = <<>> THEN [st EXCEPT !.workers[w] = NoLocals]
  ELSE LET filePath == Head(st.queue)
           proj     == projectName(e.home, e.sessionsDir, filePath)
           taken    == [st EXCEPT !.queue = Tail(@), !.dequeued = Append(@, filePath)]
       IN  IF projectFiltered(e, proj) THEN loopTop(e, taken, w)
           ELSE [taken EXCEPT !.workers[w] =
                   [NoLocals EXCEPT !.pc = "load", !.filePath = filePath, !.proj = proj]]

\* extractText(content) at line 334 throws on some message of the file; the
\* for loop is in no try block.
loopThrows(messages) ==
  \E k \in 1..Len(messages) : extractTextThrows(messages[k].content)

\* after `await remoteCache.get(projDir)`: the for loop, then the loop again
afterRemote(e, st, w) ==
  LET wk        == st.workers[w]
      gitRemote == st.remoteCache[wk.projDir].value
      pushed    == [st EXCEPT !.matches = @ \o matchesFrom(e, wk, gitRemote, 0)]
  IN  IF loopThrows(wk.messages) THEN [pushed EXCEPT !.workers[w].pc = "threw"]
      ELSE loopTop(e, pushed, w)

\* if (!remoteCache.has(projDir)) remoteCache.set(projDir, resolveGitRemote(..))
reserveNever(e, st, filePath, projDir) ==
  [st EXCEPT
     !.remoteCache = (projDir :> [settled |-> resolvesAtOnce(e.home, e.sessionsDir, filePath),
                                 value |-> NullRemote, waiters |-> <<>>]) @@ @,
     !.lookups = Append(@, projDir)]
reserve(e, st, filePath, projDir) ==
  IF projDir \in DOMAIN st.remoteCache THEN st
  ELSE [st EXCEPT
          !.remoteCache = @ @@ (projDir :>
                [settled |-> resolvesAtOnce(e.home, e.sessionsDir, filePath),
                 value |-> NullRemote, waiters |-> <<>>]),
          !.lookups = Append(@, projDir)]

\* if (since && sessionTs && new Date(sessionTs) < since) continue;
tooOldOrUnstamped(e, sessionTs) ==
  e.since # NoTs /\ (sessionTs = NoTs \/ DateOf(sessionTs) < e.since)
tooOld(e, sessionTs) ==
  e.since # NoTs /\ sessionTs # NoTs /\ DateOf(sessionTs) < e.since

\* the worker's loop body after the try block, with what loadMessages returned
processLoadedNoAwait(e, st, w, loaded) ==
  LET sessionTs == IF loaded.records = <<>> THEN NoTs ELSE loaded.records[1].timestamp
      filePath  == st.workers[w].filePath
      projDir   == Dirname(filePath)
      reserved  == reserve(e, st, filePath, projDir)
      locals    == [st.workers[w] EXCEPT !.messages = loaded.messages,
                      !.sessionTs = sessionTs, !.projDir = projDir]
  IN  IF tooOld(e, sessionTs)
      THEN loopTop(e, st, w)
      ELSE afterRemote(e, [reserved EXCEPT !.workers[w] = locals,
                                           !.remoteCache[projDir].settled = TRUE], w)
processLoaded(e, st, w, loaded) ==
  LET sessionTs == IF loaded.records = <<>> THEN NoTs ELSE loaded.records[1].timestamp
      filePath  == st.workers[w].filePath
      projDir   == Dirname(filePath)
      reserved  == reserve(e, st, filePath, projDir)
      locals    == [st.workers[w] EXCEPT !.messages = loaded.messages,
                      !.sessionTs = sessionTs, !.projDir = projDir]
  IN  IF tooOld(e, sessionTs)
      THEN loopTop(e, st, w)
      ELSE IF reserved.remoteCache[projDir].settled
      THEN afterRemote(e, [reserved EXCEPT !.workers[w] = locals], w)
      ELSE [reserved EXCEPT
              !.workers[w] = [locals EXCEPT !.pc = "remote"],
              !.remoteCache[projDir].waiters = Append(@, w)]

\* after `await loadMessages(filePath)`: try { ... } catch { continue; }
afterLoad(e, st, w, loaded) ==
  IF loaded.threw THEN loopTop(e, st, w)
  ELSE processLoaded(e, st, w, loaded)

\* The workers awaiting one lookup resume in the order they began to wait.
RECURSIVE resumeAll(_, _, _)
resumeAll(e, st, ws) ==
  IF ws = <<>> THEN st ELSE resumeAll(e, afterRemote(e, st, Head(ws)), Tail(ws))

\* Promise.all(Array.from({ length: CONCURRENCY }, worker)): each worker runs
\* to its first await before the next one starts.
NumWorkersPerFile == NumFiles
NumWorkers == CONCURRENCY
RECURSIVE spawn(_, _, _)
spawn(e, st, w) == IF w > NumWorkers THEN st ELSE spawn(e, loopTop(e, st, w), w + 1)

\* matches.sort((a, b) => ...): negative when a goes first
compareAscending(a, b) ==
  IF a.timestamp = NoTs /\ b.timestamp = NoTs THEN 0
  ELSE IF a.timestamp = NoTs THEN 1
  ELSE IF b.timestamp = NoTs THEN -1
  ELSE DateOf(a.timestamp) - DateOf(b.timestamp)
compare(a, b) ==
  IF a.timestamp = NoTs /\ b.timestamp = NoTs THEN 0
  ELSE IF a.timestamp = NoTs THEN 1
  ELSE IF b.timestamp = NoTs THEN -1
  ELSE DateOf(b.timestamp) - DateOf(a.timestamp)

\* Array.prototype.sort is stable: x goes before the first element it must
\* precede, after every element it ties with.
RECURSIVE insertSorted(_, _)
insertSorted(sorted, x) ==
  IF sorted = <<>> THEN <<x>>
  ELSE IF compare(x, Head(sorted)) < 0 THEN <<x>> \o sorted
  ELSE <<Head(sorted)>> \o insertSorted(Tail(sorted), x)
RECURSIVE sortFrom(_, _)
sortFrom(sorted, ms) ==
  IF ms = <<>> THEN sorted ELSE sortFrom(insertSorted(sorted, Head(ms)), Tail(ms))
sort(ms) == sortFrom(<<>>, ms)

(***************************************************************************)
(* The world of Spec: a home directory with one git project, and session   *)
(* files of six kinds.  Timestamps 3 and 4 denote the same instant.        *)
(***************************************************************************)
Home == <<"/", "u">>
SessionsDir == <<"/", "s">>
Query == <<"q">>
DefaultContext == 1

Disk ==
  [paths    |-> {<<"/", "u", "/", "a">>, <<"/", "u", "/", "a", "/", ".git">>,
                 <<"/", "u", "/", "c">>,
                 <<"/", "u", "/", "d">>, <<"/", "u", "/", "d", "/", ".git">>,
                 <<"/", "u", "/", "e">>, <<"/", "u", "/", "e", "/", ".git">>,
                 <<"/", "u", "/", "t">>, <<"/", "u", "/", "t", "/", ".git">>},
   \* what `git remote get-url origin` prints where it succeeds; /u/d has no
   \* origin (git exits with an error), in /u/t git exceeds the 2000 ms timeout
   origin   |-> (<<"/", "u", "/", "a">> :> <<"r", "\n">>) @@
                (<<"/", "u", "/", "e">> :> <<"\n">>),
   timeouts |-> {<<"/", "u", "/", "t">>}]

SlugHomeA == <<"-", "u", "-", "a">>      \* /u/a, under the home directory
SlugOther == <<"-", "x", "-", "a">>      \* /x/a, not under the home directory

FileOf(lines) == Join(lines, <<NL>>)
Line(obj) == <<LB, Members(obj), RB>>

MsgAsk == Rec("user", 4, StrContent(<<"q">>))
MsgReply == Rec("assistant", NoTs, StrContent(<<"b">>))
MsgAgain == Rec("user", NoTs, ArrContent(<<TextBlock(<<"Q", "a">>), ToolBlock>>))
MsgUntimed == Rec("user", NoTs, StrContent(<<"q">>))
MsgOld == Rec("user", 1, StrContent(<<"q">>))
MsgSame == Rec("assistant", 3, StrContent(<<"a", "q">>))
MsgNullBlock == Rec("user", 4, ArrContent(<<TextBlock(<<"q">>), NullBlock>>))
Meta == Rec("system", NoTs, NoContent)

SessionTimed ==
  [slug |-> SlugHomeA, readable |-> TRUE,
   raw |-> FileOf(<<Line(MsgAsk), Line(MsgReply), Line(MsgAgain)>>)]
SessionUntimed ==
  [slug |-> SlugHomeA, readable |-> TRUE,
   raw |-> FileOf(<<Line(Meta), Line(MsgUntimed)>>)]
SessionCorruptLine ==
  [slug |-> SlugOther, readable |-> TRUE,
   raw |-> FileOf(<<Line(MsgOld), LineTruncated, Line(MsgSame)>>)]
SessionUnreadable ==
  [slug |-> SlugHomeA, readable |-> FALSE, raw |-> <<>>]
SessionNullLine ==
  [slug |-> SlugOther, readable |-> TRUE,
   raw |-> FileOf(<<Line(MsgOld), LineNull>>)]

SessionNullBlock ==
  [slug |-> SlugHomeA, readable |-> TRUE,
   raw |-> FileOf(<<Line(MsgOld), Line(MsgNullBlock)>>)]

SessionKinds ==
  {SessionTimed, SessionUntimed, SessionCorruptLine, SessionUnreadable, SessionNullLine,
   SessionNullBlock}

Init ==
  /\ \E files \in [1..NumFiles -> SessionKinds], limit \in 1..MaxLimit,
        rootReadable \in BOOLEAN :
       env = [rootReadable |-> rootReadable, files |-> files, home |-> Home,
              sessionsDir |-> SessionsDir, disk |-> Disk, query |-> Query,
              limit |-> limit, project |-> <<>>, context |-> DefaultContext,
              caseSensitive |-> FALSE, since |-> NoTs, codeOnly |-> FALSE,
              showReasoning |-> FALSE]
  /\ phase = "readdir"
  /\ queue = <<>>
  /\ workers = <<>>
  /\ remoteCache = <<>>
  /\ lookups = <<>>
  /\ dequeued = <<>>
  /\ matches = <<>>
  /\ rendered = <<>>
  /\ call = NoCall

shared == [queue |-> queue, workers |-> workers, remoteCache |-> remoteCache,
           lookups |-> lookups, dequeued |-> dequeued, matches |-> matches]

Becomes(st) ==
  /\ queue' = st.queue
  /\ workers' = st.workers
  /\ remoteCache' = st.remoteCache
  /\ lookups' = st.lookups
  /\ dequeued' = st.dequeued
  /\ matches' = st.matches

\* `await readdir(...)` returns: the queue is filled and every worker started.
ReadDirDone ==
  /\ phase = "readdir"
  /\ env.rootReadable
  /\ phase' = "scan"
  /\ Becomes(spawn(env, [shared EXCEPT !.queue = sessionFiles(env),
                                       !.workers = [w \in 1..NumWorkers |-> NoLocals]], 1))
  /\ UNCHANGED <<env, rendered, call>>

\* `await readdir(...)` throws: console.error, process.exit(1).
ReadDirFailsAndPrints ==
  /\ phase = "readdir"
  /\ ~env.rootReadable
  /\ phase' = "done"
  /\ rendered' = <<[matches |-> <<>>, totalFound |-> 0]>>
  /\ UNCHANGED <<env, queue, workers, remoteCache, lookups, dequeued, matches, call>>
ReadDirFails ==
  /\ phase = "readdir"
  /\ ~env.rootReadable
  /\ phase' = "exit"
  /\ UNCHANGED <<env, queue, workers, remoteCache, lookups, dequeued, matches,
                 rendered, call>>

\* await Promise.all(...): a worker that threw rejects the promise of
\* Promise.all in the same turn of the event loop, and with it search.
settled(st) ==
  IF \E w \in DOMAIN st.workers : st.workers[w].pc = "threw" THEN "rejected" ELSE "scan"

\* The read of worker w's file completes; the worker runs to its next await.
LoadDone(w) ==
  /\ phase = "scan"
  /\ workers[w].pc = "load"
  /\ LET st == afterLoad(env, shared, w, loadMessages(FileAt(workers[w].filePath)))
     IN  Becomes(st) /\ phase' = settled(st)
  /\ UNCHANGED <<env, rendered, call>>

\* The lookup for projDir completes; every worker awaiting it runs on.
RemoteSettled(projDir) ==
  /\ phase = "scan"
  /\ ~remoteCache[projDir].settled
  /\ LET value == resolveGitRemote(env.disk, env.home, env.sessionsDir,
                                   workers[remoteCache[projDir].waiters[1]].filePath)
         st    == [shared EXCEPT !.remoteCache[projDir] =
                     [settled |-> TRUE, value |-> value, waiters |-> <<>>]]
         after == resumeAll(env, st, remoteCache[projDir].waiters)
     IN  Becomes(after) /\ phase' = settled(after)
  /\ UNCHANGED <<env, rendered, call>>

\* const displayed = matches.slice(0, limit);
\* printResults(displayed, query, matches.length, ...)
printResultsArgsOfDisplayed(sorted, limit) ==
  [matches |-> Slice(sorted, 0, limit), totalFound |-> Len(Slice(sorted, 0, limit))]
printResultsArgs(sorted, limit) ==
  [matches |-> Slice(sorted, 0, limit), totalFound |-> Len(sorted)]

\* Promise.all resolves: sort, truncate, printResults.
FinishWithoutBarrier ==
  /\ phase = "scan"
  /\ matches' = sort(matches)
  /\ rendered' = <<printResultsArgs(sort(matches), env.limit)>>
  /\ phase' = "done"
  /\ UNCHANGED <<env, queue, workers, remoteCache, lookups, dequeued, call>>
Finish ==
  /\ phase = "scan"
  /\ \A w \in DOMAIN workers : workers[w].pc = "done"
  /\ matches' = sort(matches)
  /\ rendered' = <<printResultsArgs(sort(matches), env.limit)>>
  /\ phase' = "done"
  /\ UNCHANGED <<env, queue, workers, remoteCache, lookups, dequeued, call>>

Next ==
  \/ ReadDirDone
  \/ ReadDirFails
  \/ \E w \in DOMAIN workers : LoadDone(w)
  \/ \E d \in DOMAIN remoteCache : RemoteSettled(d)
  \/ Finish

Spec == Init /\ [][Next]_vars

(***************************************************************************)
(* What each file must contribute, written out by hand for the kinds of    *)
(* session (0-based indices into the file's messages whose text holds the  *)
(* query "q", case-insensitively), and whether its load or its matching    *)
(* fails.                                                                  *)
(***************************************************************************)
LoadFails(file) == file = SessionUnreadable \/ file = SessionNullLine
MatchingFails(file) == file = SessionNullBlock
ExpectedHits(file) ==
  CASE file = SessionTimed -> {0, 2}
    [] file = SessionUntimed -> {0}
    [] file = SessionCorruptLine -> {0, 1}
    [] OTHER -> {}

FileIds == 1..Len(env.files)
PoolOf(k) == {p \in 1..Len(matches) : matches[p].filePath = FilePathOf(env, k)}
HitsOf(k) == {matches[p].index : p \in PoolOf(k)}
InFlight == {w \in DOMAIN workers : workers[w].pc \in {"load", "remote"}}
Unsettled == {d \in DOMAIN remoteCache : ~remoteCache[d].settled}

\* What holds of the failures of loadMessages, which the try block of the
\* worker covers: the file contributes no match and stops no worker, and when
\* search has finished every other file's matches are in the final list.
LoadFailureOnlySkipped ==
  (phase \in {"scan", "done"}) =>
    /\ \A w \in DOMAIN workers : workers[w].pc \in {"load", "remote", "done"}
    /\ \A k \in FileIds : LoadFails(env.files[k]) => PoolOf(k) = {}
    /\ (InFlight = {}) => queue = <<>>
    /\ phase = "done" =>
         /\ Len(dequeued) = Len(env.files)
         /\ \A k \in FileIds :
              ~LoadFails(env.files[k]) =>
                /\ HitsOf(k) = ExpectedHits(env.files[k])
                /\ Cardinality(PoolOf(k)) = Cardinality(ExpectedHits(env.files[k]))

\* C3: a failure while processing one session file (unreadable, or corrupt
\* content) only makes that file contribute no match and never aborts the
\* scan: search is never rejected, every worker stays in its loop until the
\* queue is empty, and every other file's matches reach the final list.
C3_FailedFileOnlySkipped ==
  /\ phase # "rejected"
  /\ \A k \in FileIds : MatchingFails(env.files[k]) => PoolOf(k) = {}
  /\ LoadFailureOnlySkipped

\* search finished although one file was unreadable and one threw on load, and
\* the third file's two matches are in the final list.
LoadFailureSkippedReached ==
  /\ phase = "done"
  /\ \E k1, k2, k3 \in FileIds :
       /\ env.files[k1] = SessionUnreadable
       /\ env.files[k2] = SessionNullLine
       /\ env.files[k3] = SessionCorruptLine
       /\ k1 < k3 /\ k2 < k3
       /\ Cardinality(PoolOf(k3)) = 2

\* C4: at every point of search the files in flight (taken from the queue and
\* not finished: being read or awaiting a lookup) are at most CONCURRENCY, and
\* so are the pending remote lookups, however many files were enumerated.
C4_InFlightBounded ==
  /\ Cardinality(InFlight) <= CONCURRENCY
  /\ Cardinality(Unsettled) <= CONCURRENCY
  /\ Len(dequeued) - Cardinality(InFlight) >= 0

\* The ceiling binds: CONCURRENCY files are in flight while another waits in
\* the queue.
C4_Witness ==
  /\ phase = "scan"
  /\ Cardinality(InFlight) = CONCURRENCY
  /\ queue # <<>>

CountIn(seq, x) == Cardinality({k \in 1..Len(seq) : seq[k] = x})

\* C5: resolveGitRemote is started at most once per project directory: the
\* first worker to reach an uncached directory reserves the slot, and every
\* worker that waits for a directory waits on that one pending lookup.
C5_OneLookupPerDirectory ==
  /\ \A k \in 1..Len(lookups) : CountIn(lookups, lookups[k]) = 1
  /\ {lookups[k] : k \in 1..Len(lookups)} = DOMAIN remoteCache
  /\ \A w \in DOMAIN workers :
       workers[w].pc = "remote" =>
         /\ workers[w].projDir \in Unsettled
         /\ CountIn(remoteCache[workers[w].projDir].waiters, w) = 1

\* Two workers wait on the one lookup started for their common directory.
C5_Witness ==
  \E d \in DOMAIN remoteCache :
    /\ ~remoteCache[d].settled
    /\ Len(remoteCache[d].waiters) = 2
    /\ CountIn(lookups, d) = 1

(***************************************************************************)
(* The reference run: the files processed one at a time in queue order,    *)
(* each contributing its matches before the next is read.                  *)
(***************************************************************************)
contributionOf(e, filePath) ==
  LET loaded    == loadMessages(FileAt(filePath))
      proj      == projectName(e.home, e.sessionsDir, filePath)
      sessionTs == IF loaded.records = <<>> THEN NoTs ELSE loaded.records[1].timestamp
      wk        == [NoLocals EXCEPT !.filePath = filePath, !.proj = proj,
                      !.messages = loaded.messages, !.sessionTs = sessionTs]
  IN  IF projectFiltered(e, proj) \/ loaded.threw THEN <<>>
      ELSE IF tooOld(e, sessionTs) THEN <<>>
      ELSE matchesFrom(e, wk, resolveGitRemote(e.disk, e.home, e.sessionsDir, filePath), 0)

RECURSIVE poolInOrder(_, _)
poolInOrder(e, files) ==
  IF files = <<>> THEN <<>>
  ELSE contributionOf(e, Head(files)) \o poolInOrder(e, Tail(files))
SequentialResult == sort(poolInOrder(env, sessionFiles(env)))

\* The rank the sort orders by: the instant of the timestamp, 0 for none.
Rank(m) == IF m.timestamp = NoTs THEN 0 ELSE DateOf(m.timestamp)
Range(seq) == {seq[k] : k \in 1..Len(seq)}

\* C6: the final ordered list, and so the displayed prefix, is the
\* same in every interleaving of the workers, hence the one the run that
\* finishes the files in queue order produces.
C6_OrderIndependent ==
  phase = "done" =>
    /\ matches = SequentialResult
    /\ rendered[1].matches = Slice(SequentialResult, 0, env.limit)

\* What does hold: in every interleaving the final list holds the same matches
\* with the same sequence of ranks, and differs from the queue-order run only
\* in the relative order of matches of different files that rank equal (same
\* instant, or both without a timestamp); matches of one file that rank equal
\* stay in message order.
SameUpToTies ==
  phase = "done" =>
    /\ Len(matches) = Len(SequentialResult)
    /\ Range(matches) = Range(SequentialResult)
    /\ \A p \in 1..Len(matches) :
         /\ Rank(matches[p]) = Rank(SequentialResult[p])
         /\ matches[p] # SequentialResult[p] =>
              \E q \in 1..Len(matches) :
                /\ q # p
                /\ Rank(matches[q]) = Rank(matches[p])
                /\ matches[q].filePath # matches[p].filePath
    /\ \A p, q \in 1..Len(matches) :
         (p < q /\ matches[p].filePath = matches[q].filePath
            /\ Rank(matches[p]) = Rank(matches[q]))
           => matches[p].index < matches[q].index

\* A run whose final list differs from the queue-order run's.
TieOrderDiffers ==
  /\ phase = "done"
  /\ Len(matches) >= 2
  /\ matches # SequentialResult

\* C7: after the sort, a match with a later timestamp precedes every match with
\* an earlier one, and every match without a timestamp comes after every match
\* with one; the same holds of the displayed prefix.
SortedByRecency(ms) ==
  \A p, q \in 1..Len(ms) :
    /\ (ms[p].timestamp # NoTs /\ ms[q].timestamp # NoTs
          /\ DateOf(ms[p].timestamp) > DateOf(ms[q].timestamp)) => p < q
    /\ (ms[p].timestamp = NoTs /\ ms[q].timestamp # NoTs) => q < p
C7_SortedByRecency ==
  phase = "done" => SortedByRecency(matches) /\ SortedByRecency(rendered[1].matches)

\* The final list holds two different instants and a match without timestamp.
C7_Witness ==
  /\ phase = "done"
  /\ \E p, q, r \in 1..Len(matches) :
       /\ matches[p].timestamp # NoTs /\ matches[q].timestamp # NoTs
       /\ DateOf(matches[p].timestamp) > DateOf(matches[q].timestamp)
       /\ matches[r].timestamp = NoTs

ExpectedTotal ==
  Cardinality(UNION {{<<k, i>> : i \in ExpectedHits(env.files[k])} : k \in FileIds})

\* C8: printResults is given the first min(limit, total) entries of the sorted
\* list and, separately, the total number of matches pooled before truncation.
C8_PrefixAndTotal ==
  phase = "done" =>
    /\ Len(rendered) = 1
    /\ rendered[1].matches = SubSeq(matches, 1, Min(env.limit, Len(matches)))
    /\ Len(rendered[1].matches) = Min(env.limit, ExpectedTotal)
    /\ rendered[1].totalFound = ExpectedTotal

\* More matches were found than the limit lets through.
C8_Witness ==
  /\ phase = "done"
  /\ env.limit < rendered[1].totalFound
  /\ Len(rendered[1].matches) = env.limit

(***************************************************************************)
(* SpecContext: the two context slices of the match loop (search.js        *)
(* 364-365), taken once for a match on message i of a session of up to     *)
(* MaxMessages messages with context up to MaxContext.                     *)
(***************************************************************************)
MaxMessages == 5
MaxContext == 3

NumberedMessages(n) == [k \in 1..n |-> Rec("user", k, StrContent(<<"q">>))]

InitContext ==
  /\ SearchIdle
  /\ \E n \in 1..MaxMessages, c \in 0..MaxContext :
       \E i \in 0..(n - 1) :
         call = [op |-> "context",
                 arg |-> [messages |-> NumberedMessages(n), i |-> i, context |-> c],
                 ret |-> [before |-> <<>>, after |-> <<>>], done |-> FALSE]

TakeContext ==
  /\ call.op = "context"
  /\ ~call.done
  /\ call' = [call EXCEPT
                !.ret = [before |-> contextBefore(call.arg.messages, call.arg.i,
                                                  call.arg.context),
                         after  |-> contextAfter(call.arg.messages, call.arg.i,
                                                 call.arg.context)],
                !.done = TRUE]
  /\ UNCHANGED searchVars

NextContext == TakeContext

SpecContext == InitContext /\ [][NextContext]_vars

\* C9: for the match on message i of n with context c >= 0, before is
\* messages[max(0,i-c) .. i-1] and after is messages[i+1 .. min(n-1,i+c)], in
\* conversation order: at most c entries each, never the matched message, and
\* fewer than c only at the start or the end of the session.
C9_ContextWindow ==
  Returned("context") =>
    LET msgs == call.arg.messages
        n    == Len(msgs)
        i    == call.arg.i
        c    == call.arg.context
        lo   == IF i - c > 0 THEN i - c ELSE 0
        hi   == IF i + c < n - 1 THEN i + c ELSE n - 1
    IN  /\ call.ret.before = [k \in 1..(i - lo) |-> msgs[lo + k]]
        /\ call.ret.after = [k \in 1..(hi - i) |-> msgs[i + 1 + k]]
        /\ Len(call.ret.before) <= c /\ Len(call.ret.after) <= c
        /\ msgs[i + 1] \notin Range(call.ret.before) \cup Range(call.ret.after)
        /\ Len(call.ret.before) < c => lo = 0
        /\ Len(call.ret.after) < c => hi = n - 1

\* context 2 around message 1 of 5: one message before (the start cuts the
\* window), two after.
C9_Witness ==
  /\ Returned("context")
  /\ call.arg.i = 1 /\ call.arg.context = 2 /\ Len(call.arg.messages) = 5
  /\ call.ret.before = <<call.arg.messages[1]>>
  /\ call.ret.after = <<call.arg.messages[3], call.arg.messages[4]>>

(***************************************************************************)
(* SpecPath: findExistingPath called once, as resolveGitRemote calls it    *)
(* (search.js 72, 76): base is the home directory, parts the pieces of the *)
(* slug's remainder between hyphens (a piece is empty where two hyphens    *)
(* meet or the remainder begins or ends with one).  The disk holds the     *)
(* home directory and any parent-closed set of the paths the parts can     *)
(* spell.                                                                  *)
(***************************************************************************)
MaxParts == 3
Tokens == {<<"a">>, <<>>}
PartsUpTo == UNION {[1..n -> Tokens] : n \in 1..MaxParts}

\* path.join(base, segment): an empty segment adds nothing.
JoinSegment(base, segment) == IF segment = <<>> THEN base ELSE PathJoin(base, segment)

RECURSIVE SpelledPaths(_, _)
SpelledPaths(base, parts) ==
  UNION {LET candidate == JoinSegment(base, Join(SubSeq(parts, 1, take), <<"-">>))
         IN  {candidate} \cup SpelledPaths(candidate, SubSeq(parts, take + 1, Len(parts)))
           : take \in 1..Len(parts)}

ParentClosed(base, paths) ==
  \A p \in paths : p = base \/ Dirname(p) \in paths

DisksFor(base, parts) ==
  {[paths |-> ps \cup {base}, origin |-> <<>>, timeouts |-> {}] :
     ps \in {qs \in SUBSET (SpelledPaths(base, parts) \ {base}) :
               ParentClosed(base, qs \cup {base})}}

InitPath ==
  /\ SearchIdle
  /\ \E parts \in PartsUpTo :
       \E disk \in DisksFor(Home, parts) :
         call = [op |-> "findExistingPath",
                 arg |-> [disk |-> disk, base |-> Home, parts |-> parts],
                 ret |-> NoPath, done |-> FALSE]

CallFindExistingPath ==
  /\ call.op = "findExistingPath"
  /\ ~call.done
  /\ call' = [call EXCEPT
                !.ret = findExistingPath(call.arg.disk, call.arg.base, call.arg.parts),
                !.done = TRUE]
  /\ UNCHANGED searchVars

NextPath == CallFindExistingPath

SpecPath == InitPath /\ [][NextPath]_vars

\* A grouping of n parts is the set of positions after which a segment ends
\* (besides n).  PathUpTo is the path its segments spell up to position e.
Groupings(parts) == SUBSET (1..(Len(parts) - 1))
SegmentStart(cuts, e) ==
  IF \E c \in cuts : c < e
  THEN CHOOSE c \in cuts : c < e /\ \A d \in cuts : d < e => d <= c
  ELSE 0
RECURSIVE PathUpTo(_, _, _, _)
PathUpTo(base, parts, cuts, e) ==
  IF e = 0 THEN base
  ELSE LET s == SegmentStart(cuts, e)
       IN  JoinSegment(PathUpTo(base, parts, cuts, s),
                       Join(SubSeq(parts, s + 1, e), <<"-">>))
AllExist(disk, base, parts, cuts) ==
  \A e \in cuts \cup {Len(parts)} : PathUpTo(base, parts, cuts, e) \in disk.paths

\* The returned path read back as a slug remainder: its segments below base,
\* joined by hyphens.
ReEncoded(base, path) ==
  IF path = base THEN <<>>
  ELSE Join(Split(SliceFrom(path, Len(base) + 1), "/"), <<"-">>)

\* What holds for every remainder: a path is returned exactly when some
\* grouping of the parts spells a chain of existing paths, and the path
\* returned is the one such a grouping spells.
FoundIffSomeGrouping ==
  Returned("findExistingPath") =>
    LET a == call.arg
    IN  /\ call.ret.found <=>
             \E cuts \in Groupings(a.parts) : AllExist(a.disk, a.base, a.parts, cuts)
        /\ call.ret.found =>
             \E cuts \in Groupings(a.parts) :
               /\ AllExist(a.disk, a.base, a.parts, cuts)
               /\ call.ret.path = PathUpTo(a.base, a.parts, cuts, Len(a.parts))

\* C12: findExistingPath returns a path if and only if some grouping of the
\* consecutive hyphen-delimited tokens spells a chain of existing directories
\* consuming every token, null otherwise, and the segments of any returned
\* path joined by '-' equal the original remainder.
C12_PathReconstruction ==
  /\ FoundIffSomeGrouping
  /\ (Returned("findExistingPath") /\ call.ret.found) =>
       ReEncoded(call.arg.base, call.ret.path) = Join(call.arg.parts, <<"-">>)

\* The same for a remainder without an empty token.
ReEncodesWithoutEmptyToken ==
  (Returned("findExistingPath") /\ call.ret.found
     /\ \A k \in 1..Len(call.arg.parts) : call.arg.parts[k] # <<>>) =>
    ReEncoded(call.arg.base, call.ret.path) = Join(call.arg.parts, <<"-">>)

\* Backtracking: a exists, a/a does not, a-a does, and a-a is returned.
BacktrackedToLongerSegment ==
  /\ Returned("findExistingPath")
  /\ call.arg.parts = <<<<"a">>, <<"a">>>>
  /\ PathJoin(Home, <<"a">>) \in call.arg.disk.paths
  /\ call.ret = [found |-> TRUE, path |-> PathJoin(Home, <<"a", "-", "a">>)]

\* Depth-first order of the groupings: of two groupings the earlier is the one
\* whose segment is shorter where they first differ, that is the one holding
\* the least cut position they do not share.
Precedes(cutsA, cutsB) ==
  LET differing == (cutsA \ cutsB) \cup (cutsB \ cutsA)
  IN  /\ differing # {}
      /\ (CHOOSE c \in differing : \A d \in differing : c <= d) \in cutsA
ExistingGroupings(disk, base, parts) ==
  {cuts \in Groupings(parts) : AllExist(disk, base, parts, cuts)}
FirstExisting(disk, base, parts) ==
  CHOOSE cuts \in ExistingGroupings(disk, base, parts) :
    \A other \in ExistingGroupings(disk, base, parts) :
      other = cuts \/ Precedes(cuts, other)

\* C21: when several groupings of the tokens spell chains of existing paths,
\* findExistingPath returns the path of the one that comes first in
\* depth-first order, the shortest existing segment being preferred at each
\* level and the leftmost segment deciding first.
C21_ShortestFirstGrouping ==
  (Returned("findExistingPath") /\ ExistingGroupings(call.arg.disk, call.arg.base, call.arg.parts) # {}) =>
    LET a == call.arg
    IN  /\ call.ret.found
        /\ call.ret.path = PathUpTo(a.base, a.parts, FirstExisting(a.disk, a.base, a.parts), Len(a.parts))

\* a/a/a, a/a-a, a-a/a and a-a-a all exist: a/a/a is returned, not a-a-a.
C21_Witness ==
  /\ Returned("findExistingPath")
  /\ call.arg.parts = <<<<"a">>, <<"a">>, <<"a">>>>
  /\ \A cuts \in Groupings(call.arg.parts) :
        AllExist(call.arg.disk, call.arg.base, call.arg.parts, cuts)
  /\ call.ret = [found |-> TRUE, path |-> PathJoin(Home, <<"a", "/", "a", "/", "a">>)]
  /\ call.ret.path # PathJoin(Home, <<"a", "-", "a", "-", "a">>)

(***************************************************************************)
(* SpecOpts: search() over two session files with the options varied: a    *)
(* since cutoff, a project filter, code-only mode, case sensitivity, and   *)
(* the query in either case.  The sessions cover the ways a message can    *)
(* hold the query (in plain text, inside a fence, in a fence's language    *)
(* tag, in a thinking block) and the ways a remote lookup can fail.        *)
(***************************************************************************)
SlugProbe == <<"-", "u", "-", "b">>        \* /u/b does not exist
SlugNoGit == <<"-", "u", "-", "c">>        \* /u/c exists, without .git
SlugNoOrigin == <<"-", "u", "-", "d">>     \* git fails in /u/d
SlugEmptyOrigin == <<"-", "u", "-", "e">>  \* git prints an empty line in /u/e
SlugTimeout == <<"-", "u", "-", "t">>      \* git times out in /u/t

MsgCodeHit ==
  Rec("assistant", 4, StrContent(<<"b", " ", Fence, "\n", "q", "\n", Fence>>))
MsgCodeMiss ==
  Rec("assistant", NoTs, StrContent(<<"q", " ", Fence, "q", "\n", "b", "\n", Fence>>))
MsgCodeUpper ==
  Rec("user", NoTs, ArrContent(<<TextBlock(<<Fence, "\n", "Q", "\n", Fence>>)>>))
MsgThinkOnly ==
  Rec("assistant", NoTs,
      ArrContent(<<ThinkingBlock(<<"q">>), TextBlock(<<"b">>), ToolBlock>>))
MsgSplitFence ==
  Rec("assistant", NoTs, ArrContent(<<TextBlock(<<Fence>>), TextBlock(<<"q", "\n", Fence>>)>>))
MsgUnclosed == Rec("user", 4, StrContent(<<Fence, "\n", "q">>))

SessionCode ==
  [slug |-> SlugNoGit, readable |-> TRUE,
   raw |-> FileOf(<<Line(MsgCodeHit), Line(MsgCodeMiss), Line(MsgCodeUpper),
                    Line(MsgThinkOnly)>>)]
SessionFences ==
  [slug |-> SlugNoOrigin, readable |-> TRUE,
   raw |-> FileOf(<<Line(MsgSplitFence), Line(MsgUnclosed)>>)]
SessionLateStamp ==
  [slug |-> SlugProbe, readable |-> TRUE, raw |-> FileOf(<<Line(Meta), Line(MsgOld)>>)]
SessionEmptyOrigin ==
  [slug |-> SlugEmptyOrigin, readable |-> TRUE, raw |-> FileOf(<<Line(MsgUntimed)>>)]
SessionTimeout ==
  [slug |-> SlugTimeout, readable |-> TRUE, raw |-> FileOf(<<Line(MsgAsk)>>)]
\* " q" as the only text block of an array content, and as a string content
MsgPadded == Rec("user", NoTs, ArrContent(<<TextBlock(<<" ", "q">>)>>))
MsgPaddedString == Rec("user", NoTs, StrContent(<<" ", "q">>))
SessionPadded ==
  [slug |-> SlugHomeA, readable |-> TRUE,
   raw |-> FileOf(<<Line(MsgPadded), Line(MsgPaddedString)>>)]

\* a stamped record that is not a message comes first, the message has no stamp
MetaStamped == Rec("system", 1, NoContent)
SessionMetaStamp ==
  [slug |-> SlugNoGit, readable |-> TRUE, raw |-> FileOf(<<Line(MetaStamped), Line(MsgUntimed)>>)]

OptSessionKinds ==
  {SessionTimed, SessionUntimed, SessionCorruptLine, SessionCode, SessionFences,
   SessionLateStamp, SessionEmptyOrigin, SessionTimeout, SessionPadded, SessionMetaStamp}

\* the cutoff, as an instant: timestamps 3 and 4 are at it, 1 is before it
Cutoff == 2
Sinces == {NoTs, Cutoff}
ProjectFilters == {<<>>, <<"X">>, <<"a">>}
Queries == {<<"q">>, <<"Q">>, <<" ", "q">>}

InitOpts ==
  /\ \E f1 \in OptSessionKinds, f2 \in OptSessionKinds, since \in Sinces,
        project \in ProjectFilters, query \in Queries,
        codeOnly \in BOOLEAN, caseSensitive \in BOOLEAN, rootReadable \in BOOLEAN :
       env = [rootReadable |-> rootReadable, files |-> <<f1, f2>>, home |-> Home,
              sessionsDir |-> SessionsDir, disk |-> Disk, query |-> query,
              limit |-> MaxLimit, project |-> project, context |-> DefaultContext,
              caseSensitive |-> caseSensitive, since |-> since, codeOnly |-> codeOnly,
              showReasoning |-> FALSE]
  /\ phase = "readdir"
  /\ queue = <<>>
  /\ workers = <<>>
  /\ remoteCache = <<>>
  /\ lookups = <<>>
  /\ dequeued = <<>>
  /\ matches = <<>>
  /\ rendered = <<>>
  /\ call = NoCall

SpecOpts == InitOpts /\ [][Next]_vars

(***************************************************************************)
(* What each of these sessions holds, written out by hand: the instant of  *)
(* its first record (0: none), the lower-case letters of its project name, *)
(* and for each message in order which of "q", "Q" occur in its searchable *)
(* text and inside its fenced code.                                        *)
(***************************************************************************)
Holds(text, code) == [text |-> text, code |-> code, joined |-> text]
FirstInstant(file) ==
  CASE file \in {SessionTimed, SessionCode, SessionTimeout} -> 2
    [] file \in {SessionCorruptLine, SessionMetaStamp} -> 1
    [] OTHER -> 0
ProjectLetters(file) ==
  CASE file \in {SessionTimed, SessionUntimed, SessionPadded} -> {"a"}
    [] file = SessionCorruptLine -> {"-", "x", "a"}
    [] file \in {SessionCode, SessionMetaStamp} -> {"c"}
    [] file = SessionFences -> {"d"}
    [] file = SessionLateStamp -> {"b"}
    [] file = SessionEmptyOrigin -> {"e"}
    [] file = SessionTimeout -> {"t"}
Plain == <<"q">>
Upper == <<"Q">>
Padded == <<" ", "q">>
MessagesHold(file) ==
  CASE file = SessionTimed -> <<Holds({Plain}, {}), Holds({}, {}), Holds({Upper}, {})>>
    [] file = SessionUntimed -> <<Holds({Plain}, {})>>
    [] file = SessionCorruptLine -> <<Holds({Plain}, {}), Holds({Plain}, {})>>
    [] file = SessionCode ->
         <<Holds({Plain}, {Plain}), Holds({Plain}, {}), Holds({Upper}, {Upper}), Holds({}, {})>>
    [] file = SessionFences -> <<Holds({Plain}, {Plain}), Holds({Plain}, {})>>
    [] file = SessionLateStamp -> <<Holds({Plain}, {})>>
    [] file = SessionEmptyOrigin -> <<Holds({Plain}, {})>>
    [] file = SessionTimeout -> <<Holds({Plain}, {})>>
    [] file = SessionMetaStamp -> <<Holds({Plain}, {})>>
    \* the text of the array content is trimmed, the string content is not;
    \* joined is what the text blocks hold before the trim
    [] file = SessionPadded ->
         <<[text |-> {Plain}, code |-> {}, joined |-> {Plain, Padded}], Holds({Plain, Padded}, {})>>

LowerLetter(c) == IF c = "X" THEN "x" ELSE IF c = "Q" THEN "q" ELSE c
LowerQuery(query) == IF query = Upper THEN Plain ELSE query
HoldsQuery(held) ==
  IF env.caseSensitive THEN env.query \in held
  ELSE \E x \in held : LowerQuery(x) = LowerQuery(env.query)
TimeSkipped(file) ==
  env.since # NoTs /\ FirstInstant(file) # 0 /\ FirstInstant(file) < env.since
ProjectSkipped(file) ==
  env.project # <<>> /\ LowerLetter(env.project[1]) \notin ProjectLetters(file)
QualifyingIn(file) ==
  {i \in 0..(Len(MessagesHold(file)) - 1) :
     /\ HoldsQuery(MessagesHold(file)[i + 1].text)
     /\ env.codeOnly => HoldsQuery(MessagesHold(file)[i + 1].code)}
ExpectedIn(file) ==
  IF TimeSkipped(file) \/ ProjectSkipped(file) THEN {} ELSE QualifyingIn(file)

\* The oracle and the search agree on every file, whatever the options.
AgreesWithOracle ==
  phase = "done" =>
    \A k \in FileIds :
      /\ HitsOf(k) = ExpectedIn(env.files[k])
      /\ Cardinality(PoolOf(k)) = Cardinality(ExpectedIn(env.files[k]))

\* C13: with a since cutoff, a session whose first record carries a timestamp
\* earlier than the cutoff contributes no match at any time, even for messages
\* stamped at or after the cutoff; a session whose first record has no
\* timestamp, and any session when no cutoff is given, yields exactly the
\* matches it yields without the time filter.
C13_SessionLevelCutoff ==
  \A k \in FileIds :
    LET file == env.files[k]
    IN  /\ TimeSkipped(file) => PoolOf(k) = {}
        /\ (phase = "done" /\ (env.since = NoTs \/ FirstInstant(file) = 0)) =>
             HitsOf(k) = (IF ProjectSkipped(file) THEN {} ELSE QualifyingIn(file))

\* With the cutoff at instant 2, the session that starts at instant 1 and holds
\* a message stamped at instant 2 gave nothing, while the session whose first
\* record has no timestamp gave its message stamped at instant 1.
C13_Witness ==
  /\ phase = "done"
  /\ env.since = Cutoff /\ env.project = <<>> /\ ~env.codeOnly
  /\ env.files = <<SessionCorruptLine, SessionLateStamp>>
  /\ PoolOf(1) = {}
  /\ \E p \in PoolOf(2) : matches[p].timestamp = 1

\* The record of a pooled match in the oracle's table.
HeldBy(m) == MessagesHold(FileAt(m.filePath))[m.index + 1]

\* C14: in code-only mode every match in the pool, at any time, is for a
\* message one of whose fenced code blocks contains the query under the
\* configured case sensitivity; a message that holds the query only outside
\* its code blocks (or has no closed fence) never yields a match.
C14_CodeOnlyNeedsCodeHit ==
  (env.codeOnly /\ phase \in {"scan", "done", "rejected"}) =>
    /\ \A p \in 1..Len(matches) :
         /\ HoldsQuery(HeldBy(matches[p]).code)
         /\ \E b \in 1..Len(matches[p].codeBlocks) :
              Includes(IF env.caseSensitive THEN matches[p].codeBlocks[b].code
                       ELSE ToLowerCase(matches[p].codeBlocks[b].code), needleOf(env))
    /\ phase = "done" =>
         \A k \in FileIds :
           \A i \in QualifyingIn(env.files[k]) \cup HitsOf(k) :
             HoldsQuery(MessagesHold(env.files[k])[i + 1].code)

\* Code-only search for "q" over the session with fences: the message with
\* "q" inside a fence matched; the one with "q" before the fence and in the
\* fence's language tag, and the one with "Q" in its fence under case
\* sensitivity, did not.
C14_Witness ==
  /\ phase = "done"
  /\ env.codeOnly /\ env.caseSensitive /\ env.query = <<"q">>
  /\ env.since = NoTs /\ env.project = <<>>
  /\ env.files[1] = SessionCode
  /\ HitsOf(1) = {0}

\* C15: outside code-only mode, search yields exactly one match for every
\* message of a scanned session whose searchable text (the text blocks
\* newline-joined, or the string content) contains the query, compared as
\* caseSensitive says, and none for any other message.
C15_OneMatchPerQualifying ==
  (phase = "done" /\ ~env.codeOnly) =>
    \A k \in FileIds :
      LET file == env.files[k]
      IN  ~(TimeSkipped(file) \/ ProjectSkipped(file)) =>
            /\ HitsOf(k) = {i \in 0..(Len(MessagesHold(file)) - 1) :
                              HoldsQuery(MessagesHold(file)[i + 1].joined)}
            /\ Cardinality(PoolOf(k)) = Cardinality(HitsOf(k))

\* C15 as amended: the same, the searchable text of an array content being
\* its text blocks newline-joined and then trimmed of leading and trailing
\* whitespace (a string content is searched as it is); the text of each
\* match is that searchable text.
C15_OneMatchPerTrimmedText ==
  (phase = "done" /\ ~env.codeOnly) =>
    \A k \in FileIds :
      LET file == env.files[k]
      IN  ~(TimeSkipped(file) \/ ProjectSkipped(file)) =>
            /\ HitsOf(k) = {i \in 0..(Len(MessagesHold(file)) - 1) :
                              HoldsQuery(MessagesHold(file)[i + 1].text)}
            /\ Cardinality(PoolOf(k)) = Cardinality(HitsOf(k))
            /\ \A p \in PoolOf(k) :
                 Includes(IF env.caseSensitive THEN matches[p].text
                          ELSE ToLowerCase(matches[p].text), needleOf(env))

\* The query " q" over the session holding " q" as a text block and as a
\* string: only the string matched; and the message with "q" only in a
\* thinking block never matches.
C15_Witness ==
  /\ phase = "done"
  /\ ~env.codeOnly /\ env.query = Padded /\ env.since = NoTs /\ env.project = <<>>
  /\ env.files = <<SessionPadded, SessionCode>>
  /\ HitsOf(1) = {1}
  /\ 3 \notin HitsOf(2)

\* C16: when the sessions root cannot be read, search reports the error and
\* exits (phase "exit": console.error, process.exit(1)) with nothing else
\* done: no worker started, no file dequeued or loaded, no remote lookup
\* started, no match pooled, the renderer never called.
C16_UnreadableRootNoOutput ==
  ~env.rootReadable =>
    /\ phase \in {"readdir", "exit"}
    /\ queue = <<>> /\ workers = <<>> /\ dequeued = <<>>
    /\ remoteCache = <<>> /\ lookups = <<>>
    /\ matches = <<>> /\ rendered = <<>>

\* The unreadable root has been reported and the process has exited.
C16_Witness ==
  /\ ~env.rootReadable
  /\ phase = "exit"
  /\ Len(env.files) = NumFiles

\* The remote each of the sessions' project directories resolves to, by hand:
\* only /u/a is a git work tree whose origin git prints.
RemoteOf(file) ==
  IF file.slug = SlugHomeA THEN Remote(<<"r">>) ELSE NullRemote

\* C17: remote resolution never fails the search.  Whatever way the lookup of
\* a project directory fails (slug without the home prefix, no path found, no
\* .git, git error, git timeout, empty output), no worker throws, search is
\* never rejected, and when it has finished every qualifying message of
\* every scanned session has its match, with gitRemote null where the lookup
\* failed.
C17_RemoteFailureIsNull ==
  /\ phase # "rejected"
  /\ \A w \in DOMAIN workers : workers[w].pc # "threw"
  /\ \A d \in DOMAIN remoteCache :
       remoteCache[d].settled =>
         \/ remoteCache[d].value = NullRemote
         \/ remoteCache[d].value = Remote(<<"r">>)
  /\ \A k \in FileIds : \A p \in PoolOf(k) : matches[p].gitRemote = RemoteOf(env.files[k])
  /\ phase = "done" =>
       \A k \in FileIds :
         /\ HitsOf(k) = ExpectedIn(env.files[k])
         /\ Cardinality(PoolOf(k)) = Cardinality(ExpectedIn(env.files[k]))

\* A search over two sessions of the project where git times out has
\* finished: one lookup was started, the worker that awaited it went on, and
\* both sessions have their match, without remote.
C17_Witness ==
  /\ phase = "done"
  /\ env.files = <<SessionTimeout, SessionTimeout>>
  /\ Len(lookups) = 1
  /\ PoolOf(1) # {} /\ PoolOf(2) # {}
  /\ \A p \in 1..Len(matches) : matches[p].gitRemote = NullRemote

\* C18: loadMessages fails only if the file cannot be read: for every
\* readable file, whatever its lines, it returns records and messages.
C18_ReadableFileLoads ==
  (Returned("loadMessages") /\ call.arg.readable) => ~call.ret.threw

\* What holds: a readable file fails to load exactly when one of its lines is
\* the JSON literal null.
ReadableFailsOnlyOnNullLine ==
  (Returned("loadMessages") /\ call.arg.readable) =>
    (call.ret.threw <=> \E k \in 1..Len(call.lines) : Trim(call.lines[k]) = <<NUL>>)

\* C19: with a project filter, a file whose project name does not contain the
\* filter (case-insensitively) is never loaded, never has a remote lookup
\* started for its directory and never contributes a match; the files whose
\* project name contains the filter give what they give without the filter.
C19_ProjectFilterSkipsEarly ==
  \A k \in FileIds :
    LET file == env.files[k]
    IN  /\ ProjectSkipped(file) =>
             /\ PoolOf(k) = {}
             /\ \A w \in DOMAIN workers :
                  workers[w].pc \in {"load", "remote"} =>
                    workers[w].filePath # FilePathOf(env, k)
             /\ \A n \in 1..Len(lookups) : lookups[n] # Dirname(FilePathOf(env, k))
        /\ (phase = "done" /\ ~ProjectSkipped(file)) =>
             HitsOf(k) = (IF TimeSkipped(file) THEN {} ELSE QualifyingIn(file))

\* Filter "X": the session of project "a" was dequeued and gave nothing, the
\* session of project "-x-a" gave its matches, and one lookup was started.
C19_Witness ==
  /\ phase = "done"
  /\ env.project = <<"X">> /\ env.since = NoTs /\ ~env.codeOnly /\ env.query = Plain
  /\ env.files = <<SessionTimed, SessionCorruptLine>>
  /\ Len(dequeued) = 2
  /\ PoolOf(1) = {} /\ HitsOf(2) = {0, 1}
  /\ lookups = <<Dirname(FilePathOf(env, 2))>>

(***************************************************************************)
(* SpecBlocks: extractCodeBlocks called twice in a row on the same         *)
(* content, a string or a one-block array of up to MaxTextLen tokens.  The *)
(* fence pattern is a local of the function (search.js 29): no call leaves *)
(* anything behind for the next.                                           *)
(***************************************************************************)
MaxTextLen == 8
TextChars == {Fence, "\n", "a"}
Texts == UNION {[1..n -> TextChars] : n \in 0..MaxTextLen}

InitBlocks ==
  /\ SearchIdle
  /\ \E text \in Texts, asArray \in BOOLEAN :
       call = [op |-> "extractCodeBlocks", text |-> text,
               arg |-> IF asArray THEN ArrContent(<<TextBlock(text)>>) ELSE StrContent(text),
               ret |-> <<>>, again |-> <<>>, calls |-> 0, done |-> FALSE]

CallExtractCodeBlocks ==
  /\ call.op = "extractCodeBlocks"
  /\ call.calls = 0
  /\ call' = [call EXCEPT !.ret = extractCodeBlocks(call.arg), !.calls = 1]
  /\ UNCHANGED searchVars

CallExtractCodeBlocksAgain ==
  /\ call.op = "extractCodeBlocks"
  /\ call.calls = 1
  /\ call' = [call EXCEPT !.again = extractCodeBlocks(call.arg), !.calls = 2,
                          !.done = TRUE]
  /\ UNCHANGED searchVars

NextBlocks == CallExtractCodeBlocks \/ CallExtractCodeBlocksAgain

SpecBlocks == InitBlocks /\ [][NextBlocks]_vars

\* The text the fences are looked for in: the string, or the block's text
\* without its leading and trailing whitespace.
SourceText ==
  IF call.arg.kind = "string" THEN call.text
  ELSE LET ns == {k \in 1..Len(call.text) : ~IsSpaceChar(call.text[k])}
       IN  IF ns = {} THEN <<>>
           ELSE SubSeq(call.text, CHOOSE k \in ns : \A j \in ns : k <= j,
                                  CHOOSE k \in ns : \A j \in ns : j <= k)

\* The fenced block that opens at position p of the text, read off the text:
\* the fence, the run of word characters after it, a newline, and the body up
\* to the next fence.
TagEnd(text, p) ==
  CHOOSE m \in p..Len(text) :
    /\ \A j \in (p + 1)..m : IsWordChar(text[j])
    /\ m = Len(text) \/ ~IsWordChar(text[m + 1])
Closers(text, p) == {c \in (TagEnd(text, p) + 2)..Len(text) : text[c] = Fence}
OpensBlock(text, p) ==
  /\ text[p] = Fence
  /\ TagEnd(text, p) < Len(text)
  /\ text[TagEnd(text, p) + 1] = "\n"
  /\ Closers(text, p) # {}
CloserOf(text, p) == CHOOSE c \in Closers(text, p) : \A d \in Closers(text, p) : c <= d
TagAt(text, p) == SubSeq(text, p + 1, TagEnd(text, p))
BodyAt(text, p) == SubSeq(text, TagEnd(text, p) + 2, CloserOf(text, p) - 1)
EndsClean(code) == code = <<>> \/ ~IsSpaceChar(code[Len(code)])

MaxThinkLines == 9
ThinkLines == {<<>>, <<"a", "Q">>}
ThinkTexts == UNION {[1..n -> ThinkLines] : n \in 1..MaxThinkLines}
ReasoningQueries == {<<"q">>, <<"Q">>}

Thinking(ls) == [tag |-> "thinking", lines |-> ls]
Said(ls) == [tag |-> "text", lines |-> ls]
Tool == [tag |-> "tool_use", lines |-> <<<<>>>>]
ContentShapes(ls) ==
  {[kind |-> "array",  blocks |-> <<Thinking(ls)>>],
   [kind |-> "array",  blocks |-> <<Said(<<<<"q">>>>), Tool, Thinking(ls)>>],
   [kind |-> "array",  blocks |-> <<Thinking(<<<<>>>>), Thinking(ls)>>],
   [kind |-> "array",  blocks |-> <<Thinking(<<<<"a">>>>), Thinking(ls)>>],
   [kind |-> "array",  blocks |-> <<Said(ls)>>],
   [kind |-> "string", blocks |-> <<Said(ls)>>]}

blockFrom(b) ==
  CASE b.tag = "thinking" -> ThinkingBlock(Join(b.lines, <<"\n">>))
    [] b.tag = "text"     -> TextBlock(Join(b.lines, <<"\n">>))
    [] OTHER              -> ToolBlock
contentFrom(shape) ==
  IF shape.kind = "string" THEN StrContent(Join(shape.blocks[1].lines, <<"\n">>))
  ELSE ArrContent([k \in 1..Len(shape.blocks) |-> blockFrom(shape.blocks[k])])

InitReasoning ==
  /\ SearchIdle
  /\ \E ls \in ThinkTexts, query \in ReasoningQueries :
       \E shape \in ContentShapes(ls) :
         call = [op |-> "extractReasoningSnippet", shape |-> shape,
                 arg |-> [content |-> contentFrom(shape), query |-> query],
                 ret |-> NoReasoning, done |-> FALSE]

CallExtractReasoningSnippet ==
  /\ call.op = "extractReasoningSnippet"
  /\ ~call.done
  /\ call' = [call EXCEPT
                !.ret = extractReasoningSnippet(call.arg.content, call.arg.query),
                !.done = TRUE]
  /\ UNCHANGED searchVars

NextReasoning == CallExtractReasoningSnippet

SpecReasoning == InitReasoning /\ [][NextReasoning]_vars

\* A line holds the query, letter case ignored (the queries are q and Q).
HoldsIgnoringCase(line) == \E k \in 1..Len(line) : line[k] \in {"q", "Q"}

\* What the claim says of the result when the lines ls are the ones searched
\* (none searched: ls is the empty sequence).
SnippetOf(ls, ret) ==
  LET L    == Len(ls)
      hits == {h \in 0..(L - 1) : HoldsIgnoringCase(ls[h + 1])}
  IN  IF hits = {} THEN ret = NoReasoning
      ELSE LET h  == CHOOSE x \in hits : \A y \in hits : x <= y
               lo == IF h - 3 > 0 THEN h - 3 ELSE 0
               hi == IF h + 3 < L - 1 THEN h + 3 ELSE L - 1
           IN  /\ ret.found
               /\ ret.lines = [i \in 1..(hi - lo + 1) |-> ls[lo + i]]
               /\ ret.hitLine = h - lo
               /\ ret.trimmedTop <=> h > 3
               /\ ret.trimmedBottom <=> h + 3 < L - 1
               /\ HoldsIgnoringCase(ret.lines[ret.hitLine + 1])
               /\ Len(ret.lines) <= 7

\* The blocks of an array content that carry the thinking tag, and those of
\* them whose text is not empty.
TaggedThinking(shape) ==
  IF shape.kind # "array" THEN {}
  ELSE {k \in 1..Len(shape.blocks) : shape.blocks[k].tag = "thinking"}
NonEmptyThinking(shape) ==
  {k \in TaggedThinking(shape) : shape.blocks[k].lines # <<<<>>>>}
LinesOfFirst(shape, among) ==
  IF among = {} THEN <<>>
  ELSE shape.blocks[CHOOSE k \in among : \A j \in among : k <= j].lines

\* C22 as stated: the lines searched are those of the first block tagged
\* thinking; with the first line holding the query at index h of L lines the
\* result is lines[max(0,h-3) .. min(L-1,h+3)], hitLine = h - max(0,h-3),
\* trimmedTop iff h > 3, trimmedBottom iff h + 3 < L - 1, the line at hitLine
\* holds the query and there are at most 7 lines; none is returned when no
\* line holds the query or there is no thinking block.
C22_FirstThinkingBlockWindow ==
  Returned("extractReasoningSnippet") =>
    SnippetOf(LinesOfFirst(call.shape, TaggedThinking(call.shape)), call.ret)

\* C22: the same, the lines searched being those of the first block tagged
\* thinking whose text is not empty, and a line holding the query when it
\* does so with letter case ignored.
C22_FirstNonEmptyThinkingWindow ==
  Returned("extractReasoningSnippet") =>
    SnippetOf(LinesOfFirst(call.shape, NonEmptyThinking(call.shape)), call.ret)

\* Nine lines with the first hit at index 4: lines 1..7 are returned, trimmed
\* at both ends, the hit at index 3 of the window.
C22_Witness ==
  /\ Returned("extractReasoningSnippet")
  /\ call.shape.blocks = <<Thinking(<<<<>>, <<>>, <<>>, <<>>, <<"a", "Q">>,
                                      <<>>, <<"a", "Q">>, <<>>, <<>>>>)>>
  /\ call.arg.query = <<"q">>
  /\ call.ret = [found |-> TRUE,
                 lines |-> <<<<>>, <<>>, <<>>, <<"a", "Q">>, <<>>, <<"a", "Q">>, <<>>>>,
                 hitLine |-> 3, trimmedTop |-> TRUE, trimmedBottom |-> TRUE]

\* An empty thinking block comes first and the snippet is taken from the next.
SkippedEmptyThinking ==
  /\ Returned("extractReasoningSnippet")
  /\ call.shape.blocks = <<Thinking(<<<<>>>>), Thinking(<<<<"a", "Q">>>>)>>
  /\ call.ret.found

\* The stamps written in each session file: that of its first record, and
\* that of each of its messages in order (NoTs where none is written).
StampsOf(file) ==
  CASE file = SessionTimed       -> [first |-> 4, own |-> <<4, NoTs, NoTs>>]
    [] file = SessionUntimed     -> [first |-> NoTs, own |-> <<NoTs>>]
    [] file = SessionCorruptLine -> [first |-> 1, own |-> <<1, 3>>]
    [] file = SessionCode        -> [first |-> 4, own |-> <<4, NoTs, NoTs, NoTs>>]
    [] file = SessionFences      -> [first |-> NoTs, own |-> <<NoTs, 4>>]
    [] file = SessionLateStamp   -> [first |-> NoTs, own |-> <<1>>]
    [] file = SessionEmptyOrigin -> [first |-> NoTs, own |-> <<NoTs>>]
    [] file = SessionTimeout     -> [first |-> 4, own |-> <<4>>]
    [] file = SessionPadded      -> [first |-> NoTs, own |-> <<NoTs, NoTs>>]
    [] file = SessionMetaStamp   -> [first |-> 1, own |-> <<NoTs>>]

\* C23: the timestamp of every match in the pool, at any time, is the matched
\* message's own timestamp when it has one and otherwise the timestamp of the
\* session's first record; a match has no timestamp only when both are absent.
C23_OwnStampElseSessionStamp ==
  \A p \in 1..Len(matches) :
    LET m     == matches[p]
        stamp == StampsOf(FileAt(m.filePath))
        own   == stamp.own[m.index + 1]
    IN  /\ own # NoTs => m.timestamp = own
        /\ own = NoTs => m.timestamp = stamp.first
        /\ m.timestamp = NoTs => (own = NoTs /\ stamp.first = NoTs)

\* The search is over with a match stamped by its own message (3, in a
\* session whose first record is stamped 1) and a match of an unstamped
\* message that carries the stamp of a first record that is not a message.
C23_Witness ==
  /\ phase = "done"
  /\ \E p, r \in 1..Len(matches) :
       /\ FileAt(matches[p].filePath) = SessionCorruptLine
       /\ matches[p].index = 1
       /\ matches[p].timestamp = 3
       /\ FileAt(matches[r].filePath) = SessionMetaStamp
       /\ matches[r].index = 0
       /\ matches[r].timestamp = 1

\* The session files readdir enumerated, and the file a worker holds between
\* its queue.shift() and its next pass through the loop.
EnumeratedPaths == {FilePathOf(env, k) : k \in FileIds}
Taken == [k \in 1..Len(dequeued) |-> dequeued[k]]
Holding(w) == workers[w].filePath

\* C24: in every interleaving of the workers each enumerated session file is
\* dequeued exactly once and by one worker: at any time every enumerated file
\* is either still in the queue or was taken once, never both and never
\* twice; nothing but an enumerated file is ever taken (a shift of the empty
\* queue would take none); no two workers hold the same file; and when search
\* has finished the queue is empty and every file was taken.
C24_EachFileDequeuedOnce ==
  (phase \in {"scan", "done", "rejected"}) =>
    /\ \A f \in EnumeratedPaths : CountIn(Taken \o queue, f) = 1
    /\ Len(Taken) + Len(queue) = Cardinality(EnumeratedPaths)
    /\ \A w \in InFlight :
         /\ CountIn(Taken, Holding(w)) = 1
         /\ \A v \in InFlight : Holding(v) = Holding(w) => v = w
    /\ phase = "done" => (queue = <<>> /\ \A f \in EnumeratedPaths : CountIn(Taken, f) = 1)

\* Worker 2 came back first and took the third file while worker 1 still
\* reads the first.
C24_Witness ==
  /\ phase = "scan"
  /\ Len(env.files) = NumFiles
  /\ queue = <<>>
  /\ InFlight = {1, 2}
  /\ Holding(1) = FilePathOf(env, 1)
  /\ Holding(2) = FilePathOf(env, NumFiles)

(***************************************************************************)
(* SpecLive: search() followed to the end of every worker.  Nothing        *)
(* cancels a worker: when one has thrown and Promise.all has rejected,     *)
(* the reads and lookups of the others still complete and their loops run  *)
(* on (search.js 307-371), while the code after the await of Promise.all   *)
(* is never run.  Fairness: every file read and every remote lookup that   *)
(* is awaited completes, and the event loop runs the continuation of a     *)
(* settled promise.                                                        *)
(***************************************************************************)
LiveSessionKinds ==
  {SessionTimed, SessionUntimed, SessionCorruptLine, SessionUnreadable, SessionNullBlock}

InitLive ==
  /\ \E files \in [1..NumFiles -> LiveSessionKinds], rootReadable \in BOOLEAN :
       env = [rootReadable |-> rootReadable, files |-> files, home |-> Home,
              sessionsDir |-> SessionsDir, disk |-> Disk, query |-> Query,
              limit |-> MaxLimit, project |-> <<>>, context |-> DefaultContext,
              caseSensitive |-> FALSE, since |-> NoTs, codeOnly |-> FALSE,
              showReasoning |-> FALSE]
  /\ phase = "readdir"
  /\ queue = <<>>
  /\ workers = <<>>
  /\ remoteCache = <<>>
  /\ lookups = <<>>
  /\ dequeued = <<>>
  /\ matches = <<>>
  /\ rendered = <<>>
  /\ call = NoCall

\* Promise.all stays rejected once it is.
settledAfter(st) == IF phase = "rejected" THEN "rejected" ELSE settled(st)

\* The read of worker w's file completes, before or after a rejection.
LoadSettles(w) ==
  /\ phase \in {"scan", "rejected"}
  /\ workers[w].pc = "load"
  /\ LET st == afterLoad(env, shared, w, loadMessages(FileAt(workers[w].filePath)))
     IN  Becomes(st) /\ phase' = settledAfter(st)
  /\ UNCHANGED <<env, rendered, call>>

\* The lookup for projDir completes, before or after a rejection.
RemoteSettles(projDir) ==
  /\ phase \in {"scan", "rejected"}
  /\ ~remoteCache[projDir].settled
  /\ LET value == resolveGitRemote(env.disk, env.home, env.sessionsDir,
                                   workers[remoteCache[projDir].waiters[1]].filePath)
         st    == [shared EXCEPT !.remoteCache[projDir] =
                     [settled |-> TRUE, value |-> value, waiters |-> <<>>]]
         after == resumeAll(env, st, remoteCache[projDir].waiters)
     IN  Becomes(after) /\ phase' = settledAfter(after)
  /\ UNCHANGED <<env, rendered, call>>

AnyLoadSettles == \E w \in DOMAIN workers : LoadSettles(w)
AnyRemoteSettles == \E d \in DOMAIN remoteCache : RemoteSettles(d)

NextLive ==
  \/ ReadDirDone
  \/ ReadDirFails
  \/ AnyLoadSettles
  \/ AnyRemoteSettles
  \/ Finish

\* The awaits that are outstanding, and the steps that complete them.  In a
\* behaviour of NextLive the step that completes readdir is the one that
\* leaves the "readdir" phase, the step that completes the read of worker w
\* is the one that changes w's locals while it reads, the step that
\* completes a lookup is the one that settles a cache entry, and the
\* continuation of Promise.all is the step into the "done" phase.
ReadDirPending == phase = "readdir"
LoadPending(w) ==
  w \in DOMAIN workers /\ phase \in {"scan", "rejected"} /\ workers[w].pc = "load"
RemotePending ==
  phase \in {"scan", "rejected"} /\ \E d \in DOMAIN remoteCache : ~remoteCache[d].settled
FinishPending == phase = "scan" /\ \A w \in DOMAIN workers : workers[w].pc = "done"
ReadDirStep == ReadDirPending /\ phase' \in {"scan", "exit"}
LoadStep(w) == LoadPending(w) /\ workers'[w] # workers[w]
RemoteStep ==
  RemotePending /\ \E d \in DOMAIN remoteCache : ~remoteCache[d].settled /\ remoteCache'[d].settled
FinishStep == FinishPending /\ phase' = "done"

\* Weak fairness of readdir and of the continuation of Promise.all; weak
\* fairness of each worker's read and of the lookups, written out as
\* "infinitely often not pending, or infinitely often completed".
SpecLive ==
  /\ InitLive
  /\ [][NextLive]_vars
  /\ WF_phase(ReadDirStep)
  /\ \A w \in 1..NumWorkers : ([]<>(~LoadPending(w))) \/ ([]<><<LoadStep(w)>>_vars)
  /\ ([]<>(~RemotePending)) \/ ([]<><<RemoteStep>>_vars)
  /\ WF_phase(FinishStep)

Terminated(w) == workers[w].pc \in {"done", "threw"}
AllTerminated == phase # "readdir" /\ \A w \in DOMAIN workers : Terminated(w)
Skipped(file) == LoadFails(file)

\* The pool holds every match of every file that was not skipped.
PoolComplete ==
  \A k \in FileIds :
    ~Skipped(env.files[k]) =>
      /\ HitsOf(k) = ExpectedHits(env.files[k])
      /\ Cardinality(PoolOf(k)) = Cardinality(ExpectedHits(env.files[k]))

\* The sort has been done (what follows it, truncation and rendering, is in
\* the same step).
Sorted == phase = "done"

\* C25: with every file read and remote lookup completing, every worker
\* eventually terminates; the sort, the truncation and the rendering happen
\* only when every worker has terminated and the queue is empty; the pool
\* then holds every match of every file that was not skipped; nothing is
\* rendered before the sort and no match is added to the pool after it.
C25_WorkersTerminateBeforeSort ==
  /\ <>AllTerminated
  /\ [][(~Sorted /\ Sorted') =>
          /\ queue = <<>>
          /\ \A w \in DOMAIN workers : workers[w].pc = "done"
          /\ PoolComplete
          /\ Len(matches') = Len(matches)
          /\ Range(matches') = Range(matches)]_vars
  /\ [](rendered # <<>> => Sorted)
  /\ [][Sorted => matches' = matches]_vars

\* search has finished: three files were taken, one was skipped as unreadable
\* and the matches of the other two were sorted.
C25_Witness ==
  /\ Sorted
  /\ Len(dequeued) = NumFiles
  /\ \E k \in FileIds : Skipped(env.files[k])
  /\ \E k \in FileIds : env.files[k] = SessionTimed
  /\ \E k \in FileIds : env.files[k] = SessionCorruptLine
  /\ Len(matches) = 4
  /\ rendered # <<>>

\* A worker threw and search was rejected while another worker was reading;
\* that worker has since terminated too.
TerminatedAfterRejection ==
  /\ phase = "rejected"
  /\ AllTerminated
  /\ \E w \in DOMAIN workers : workers[w].pc = "threw"
  /\ \E k \in FileIds : env.files[k] # SessionNullBlock /\ PoolOf(k) # {}

\* The pool of the run that takes the files one at a time in queue order.
ReferencePool == poolInOrder(env, sessionFiles(env))

\* C26: for given session files and options the matches pooled by search,
\* each with its file, message index, text, context slices, timestamp and
\* gitRemote, are the same set in every interleaving of the workers (that of
\* the run in queue order, each match once); and at any time all pooled
\* matches of files of one project directory carry the same gitRemote.
C26_PoolIndependentOfInterleaving ==
  /\ phase = "done" =>
       /\ Range(matches) = Range(ReferencePool)
       /\ Len(matches) = Len(ReferencePool)
       /\ \A p, r \in 1..Len(matches) : matches[p] = matches[r] => p = r
  /\ \A p, r \in 1..Len(matches) :
       Dirname(matches[p].filePath) = Dirname(matches[r].filePath) =>
         matches[p].gitRemote = matches[r].gitRemote

\* Two sessions of one project directory, read in an order that leaves the
\* final list different from the queue-order run's: the same four matches
\* are pooled, all with the directory's remote.
C26_Witness ==
  /\ phase = "done"
  /\ env.files = <<SessionTimed, SessionTimed>>
  /\ env.since = NoTs /\ env.project = <<>> /\ ~env.codeOnly
  /\ Len(matches) = 4
  /\ matches # SequentialResult
  /\ Range(matches) = Range(ReferencePool)
  /\ \A p \in 1..Len(matches) : matches[p].gitRemote = Remote(<<"r">>)

\* The same where a worker throws: every worker has terminated, and the
\* files taken are those of the queue up to the one on which the last worker
\* threw; the pool holds their matches, those of a throwing file up to the
\* message that threw.
ThrowersBefore(i) ==
  Cardinality({j \in 1..(i - 1) : MatchingFails(FileAt(sessionFiles(env)[j]))})
ReachedFiles ==
  SelectSeq(sessionFiles(env),
            LAMBDA f : \E i \in 1..Len(sessionFiles(env)) :
                         sessionFiles(env)[i] = f /\ ThrowersBefore(i) < NumWorkers)
PoolSameAfterRejection ==
  (phase = "rejected" /\ AllTerminated) =>
    /\ Range(matches) = Range(poolInOrder(env, ReachedFiles))
    /\ Len(matches) = Len(poolInOrder(env, ReachedFiles))
    /\ Range(dequeued) = Range(ReachedFiles)

====
